---- MODULE Spec2Model ----
(***************************************************************************)
(* Model of the decision-feedback core of gocityvibes/emini.               *)
(*                                                                         *)
(* src/gpt/rate_limiter.py, class RateLimiter.                             *)
(* Threads: the background worker (_process_requests), one client thread   *)
(* issuing the public calls that hold self.lock for their whole body, and  *)
(* one admin thread running force_process_queue, whose queue accesses are  *)
(* made outside the lock.  The wall clock is the variable today (the UTC   *)
(* date as a day number).  Request ids are the submission sequence numbers *)
(* (the code derives them from the microsecond timestamp).  The fields of  *)
(* a request that no transition reads (candidate_data, timestamp, result,  *)
(* processing_time_ms, callback) and the dictionaries returned by the      *)
(* read-only calls are not part of the state; the admin call               *)
(* clear_completed_requests, which only empties the history, is left out.  *)
(*                                                                         *)
(* src/prefilter/cost_optimizer.py (CostOptimizer),                        *)
(* src/gpt/confidence_calibrator.py (ConfidenceCalibrator),                *)
(* src/learning/pattern_memory.py (PatternMemory),                         *)
(* src/learning/feedback_loop.py (FeedbackLoop),                           *)
(* src/learning/hard_negatives.py (HardNegatives) and                      *)
(* src/simulation/realistic_sim.py (RealisticSimulator) are                *)
(* single-threaded objects: each is one record-valued variable, and each   *)
(* has its own specification in which its callers and its clock act.       *)
(***************************************************************************)
EXTENDS Integers, Sequences, FiniteSets, TLC

\* ---- bounds of the model ------------------------------------------------
MaxRequests == 2
DailyCap == 1
MaxDay == 1
CostDailyCap == 4         \* gpt.daily_call_cap of the cost optimizer
MaxSessionLosses == 2     \* losing trades noted per run
MaxHistoryRequests == 101 \* submissions of the run that fills the history
MaxCalCalls == 2          \* calls made on the calibrator after its set-up
MaxPmCalls == 2           \* calls made on the pattern memory
MaxPmNow == 2             \* last time (in half days) at which its clock advances
MaxStreak == 32           \* trades of a streak of updates on one signature
EwmaCap == 1000000        \* ew_win_rate and recent_performance above it count as it
MaxFbTrades == 2          \* trades recorded through the feedback loop
MaxHnCalls == 2           \* calls made on the hard negatives after the import
MaxHnNow == 3             \* last day of the hard negatives' clock

\* ---- program constants --------------------------------------------------
HistoryLimit == 100
HistoryKeep == 50

None == 0
Priorities == {1}     \* the default argument; the field is never read
PauseReasons == {"daily_cap_reached", "emergency_pause"}

VARIABLES
    today,               \* datetime.now(timezone.utc).date()
    calls_used_today,
    last_reset_date,
    is_paused,
    pause_reason,
    request_queue,       \* queue.Queue of request ids, head first
    active_request,
    completed_requests,
    shutdown_event,
    lock,                \* holder of self.lock: "free" or "client"
    requests,            \* GPTRequest objects, indexed by request id
    workerPc,
    workerReq,           \* the worker's local variable request
    clientPc,
    clientArg,           \* request_id argument of get_request_status
    queue_items,         \* local list of get_request_status
    found_request,       \* local of get_request_status / value returned
    adminPc,
    adminReq,            \* force_process_queue's local variable request
    accepted,            \* history: ids submit_request put on the queue
    oracleOrder,         \* history: ids handed to trainer.evaluate_candidate
    callsMadeToday,      \* history: oracle calls started on the date today
    costOptimizer,       \* CostOptimizer: state, recent_gpt_passes, session_losses
    calibrator,          \* ConfidenceCalibrator
    patternMemory,       \* PatternMemory
    feedbackLoop,        \* FeedbackLoop
    hardNegatives,       \* HardNegatives
    simulator,           \* RealisticSimulator and its caller's loop
    wilson               \* the last call of _wilson_interval

budgetVars == <<calls_used_today, last_reset_date, is_paused, pause_reason>>
workerVars == <<workerPc, workerReq>>
clientVars == <<clientPc, clientArg, queue_items, found_request>>
adminVars == <<adminPc, adminReq>>
ghostVars == <<accepted, oracleOrder, callsMadeToday>>
vars == <<today, calls_used_today, last_reset_date, is_paused, pause_reason,
          request_queue, active_request, completed_requests, shutdown_event,
          lock, requests, workerPc, workerReq, clientPc, clientArg,
          queue_items, found_request, adminPc, adminReq,
          accepted, oracleOrder, callsMadeToday, costOptimizer,
          calibrator, patternMemory, feedbackLoop, hardNegatives, simulator, wilson>>
\* the rate limiter's variables but the clock
rlVars == <<budgetVars, request_queue, active_request, completed_requests,
            shutdown_event, lock, requests, workerVars, clientVars, adminVars,
            ghostVars>>
\* the other components
extVars == <<costOptimizer, calibrator, patternMemory, feedbackLoop, hardNegatives, simulator, wilson>>

Range(s) == {s[i] : i \in 1..Len(s)}

\* GPTRequest as created by submit_request: status defaults to PENDING
GPTRequest(prio) ==
    [status |-> "PENDING", error |-> "none", priority |-> prio]

SetStatus(reqs, r, st, err) ==
    [reqs EXCEPT ![r] = [@ EXCEPT !.status = st, !.error = err]]

\* variant: the daily cap is not tested
CanAcceptRequest_NoCap(paused, used, shut) ==
    (~paused) /\ ~shut

\* variant: the shutdown event is not tested
CanAcceptRequest_NoShutdown(paused, used, shut) ==
    (~paused) /\ used < DailyCap

\* _can_accept_request
CanAcceptRequest(paused, used, shut) ==
    (~paused) /\ used < DailyCap /\ ~shut

\* _get_rejection_reason
GetRejectionReason(paused, used) ==
    IF paused THEN "paused"
    ELSE IF used >= DailyCap THEN "daily_cap"
    ELSE "shutdown"

\* _check_daily_reset, as the values of the four budget fields afterwards
ResetDue == today > last_reset_date
UsedAfterReset == IF ResetDue THEN 0 ELSE calls_used_today
DateAfterReset == IF ResetDue THEN today ELSE last_reset_date
PausedAfterReset ==
    IF ResetDue /\ pause_reason = "daily_cap_reached" THEN FALSE ELSE is_paused
ReasonAfterReset ==
    IF ResetDue /\ pause_reason = "daily_cap_reached" THEN "none" ELSE pause_reason

CheckDailyReset ==
    /\ calls_used_today' = UsedAfterReset
    /\ last_reset_date' = DateAfterReset
    /\ is_paused' = PausedAfterReset
    /\ pause_reason' = ReasonAfterReset

\* the completed list after the worker appended r and limited its size
LimitCompleted(list) ==
    IF Len(list) > HistoryLimit
    THEN SubSeq(list, Len(list) - HistoryKeep + 1, Len(list))
    ELSE list

RateLimiterInit ==
    /\ today = 0
    /\ calls_used_today = 0
    /\ last_reset_date = 0
    /\ is_paused = FALSE
    /\ pause_reason = "none"
    /\ request_queue = <<>>
    /\ active_request = None
    /\ completed_requests = <<>>
    /\ shutdown_event = FALSE
    /\ lock = "free"
    /\ requests = <<>>
    /\ workerPc = "init"
    /\ workerReq = None
    /\ clientPc = "idle"
    /\ clientArg = None
    /\ queue_items = <<>>
    /\ found_request = None
    /\ adminPc = "idle"
    /\ adminReq = None
    /\ accepted = {}
    /\ oracleOrder = <<>>
    /\ callsMadeToday = 0

\* ---- environment --------------------------------------------------------

\* the UTC date changes
AdvanceDay ==
    /\ today < MaxDay
    /\ today' = today + 1
    /\ callsMadeToday' = 0
    /\ UNCHANGED <<budgetVars, request_queue, active_request, completed_requests,
                   shutdown_event, lock, requests, workerVars, clientVars,
                   adminVars, accepted, oracleOrder>>
    /\ UNCHANGED extVars

\* ---- client thread: public calls under self.lock ------------------------

\* submit_request, for a caller that makes at most limit submissions
SubmitRequestUpTo(limit) ==
    /\ clientPc = "idle"
    /\ lock = "free"
    /\ Len(requests) < limit
    /\ \E prio \in Priorities :
         LET id == Len(requests) + 1
             request == GPTRequest(prio)
         IN /\ CheckDailyReset
            /\ IF CanAcceptRequest(PausedAfterReset, UsedAfterReset, shutdown_event)
               THEN /\ request_queue' = Append(request_queue, id)
                    /\ requests' = Append(requests, request)
                    /\ accepted' = accepted \cup {id}
                    /\ UNCHANGED completed_requests
               ELSE /\ requests' = Append(requests,
                          [request EXCEPT
                             !.status = "REJECTED",
                             !.error = GetRejectionReason(PausedAfterReset, UsedAfterReset)])
                    /\ completed_requests' = Append(completed_requests, id)
                    /\ UNCHANGED <<request_queue, accepted>>
    /\ UNCHANGED <<today, active_request, shutdown_event, lock, workerVars,
                   clientVars, adminVars, oracleOrder, callsMadeToday>>
    /\ UNCHANGED extVars

SubmitRequest == SubmitRequestUpTo(MaxRequests)

SetPauseState ==
    /\ clientPc = "idle"
    /\ lock = "free"
    /\ \E paused \in BOOLEAN : \E reason \in PauseReasons :
         /\ is_paused' = paused
         /\ pause_reason' = IF paused THEN reason ELSE "none"
    /\ UNCHANGED <<today, calls_used_today, last_reset_date, request_queue,
                   active_request, completed_requests, shutdown_event, lock,
                   requests, workerVars, clientVars, adminVars, ghostVars>>
    /\ UNCHANGED extVars

GetUsageCounters ==
    /\ clientPc = "idle"
    /\ lock = "free"
    /\ CheckDailyReset
    /\ UNCHANGED <<today, request_queue, active_request, completed_requests,
                   shutdown_event, lock, requests, workerVars, clientVars,
                   adminVars, ghostVars>>
    /\ UNCHANGED extVars

\* get_request_status: the part before the queue search.  A hit on the
\* active request or on the completed list returns at once; otherwise the
\* client keeps the lock and starts taking items off the queue.
GetRequestStatus ==
    /\ clientPc = "idle"
    /\ lock = "free"
    /\ \E request_id \in 1..MaxRequests :
         /\ clientArg' = request_id
         /\ lock' = "client"
         /\ queue_items' = <<>>
         /\ IF active_request = request_id \/ request_id \in Range(completed_requests)
            THEN /\ found_request' = request_id
                 /\ clientPc' = "grs_return"
            ELSE /\ found_request' = None
                 /\ clientPc' = "grs_drain"
    /\ UNCHANGED <<today, budgetVars, request_queue, active_request,
                   completed_requests, shutdown_event, requests, workerVars,
                   adminVars, ghostVars>>
    /\ UNCHANGED extVars

\* one iteration of the `while True: item = get_nowait()` loop
GetRequestStatusDrain ==
    /\ clientPc = "grs_drain"
    /\ IF request_queue = <<>>
       THEN /\ found_request' = None            \* except Empty
            /\ clientPc' = "grs_putback"
            /\ UNCHANGED <<request_queue, queue_items>>
       ELSE LET item == Head(request_queue)
            IN /\ request_queue' = Tail(request_queue)
               /\ queue_items' = Append(queue_items, item)
               /\ IF item = clientArg
                  THEN found_request' = item /\ clientPc' = "grs_putback"
                  ELSE UNCHANGED <<found_request, clientPc>>
    /\ UNCHANGED <<today, budgetVars, active_request, completed_requests,
                   shutdown_event, lock, requests, workerVars, clientArg,
                   adminVars, ghostVars>>
    /\ UNCHANGED extVars

\* one iteration of `for item in reversed(queue_items): put(item)`
GetRequestStatusPutBack ==
    /\ clientPc = "grs_putback"
    /\ IF queue_items = <<>>
       THEN /\ clientPc' = "grs_return"
            /\ UNCHANGED <<request_queue, queue_items>>
       ELSE /\ request_queue' = Append(request_queue, queue_items[Len(queue_items)])
            /\ queue_items' = SubSeq(queue_items, 1, Len(queue_items) - 1)
            /\ UNCHANGED clientPc
    /\ UNCHANGED <<today, budgetVars, active_request, completed_requests,
                   shutdown_event, lock, requests, workerVars, clientArg,
                   found_request, adminVars, ghostVars>>
    /\ UNCHANGED extVars

\* get_performance_stats takes self.lock (a non-reentrant threading.Lock).
\* It is called directly by a client, and by get_system_status from inside
\* its own `with self.lock` block (clientPc = "gss_perf").  The statistics
\* it computes are read-only.
GetPerformanceStats ==
    /\ clientPc \in {"idle", "gss_perf"}
    /\ lock = "free"
    /\ lock' = "client"
    /\ clientPc' = "perf_return"
    /\ UNCHANGED <<today, budgetVars, request_queue, active_request,
                   completed_requests, shutdown_event, requests, workerVars,
                   clientArg, queue_items, found_request, adminVars, ghostVars>>
    /\ UNCHANGED extVars

\* get_system_status: takes the lock, runs the daily reset, then calls
\* get_performance_stats while still holding the lock.
GetSystemStatus ==
    /\ clientPc = "idle"
    /\ lock = "free"
    /\ lock' = "client"
    /\ CheckDailyReset
    /\ clientPc' = "gss_perf"
    /\ UNCHANGED <<today, request_queue, active_request, completed_requests,
                   shutdown_event, requests, workerVars, clientArg, queue_items,
                   found_request, adminVars, ghostVars>>
    /\ UNCHANGED extVars

\* the client leaves the `with self.lock` block and returns to its caller
ClientReturn ==
    /\ clientPc \in {"grs_return", "perf_return"}
    /\ lock' = "free"
    /\ clientPc' = "idle"
    /\ clientArg' = None
    /\ queue_items' = <<>>
    /\ found_request' = None
    /\ UNCHANGED <<today, budgetVars, request_queue, active_request,
                   completed_requests, shutdown_event, requests, workerVars,
                   adminVars, ghostVars>>
    /\ UNCHANGED extVars

\* shutdown: sets the event (no lock), then joins the worker with a timeout
Shutdown ==
    /\ shutdown_event' = TRUE
    /\ UNCHANGED <<today, budgetVars, request_queue, active_request,
                   completed_requests, lock, requests, workerVars, clientVars,
                   adminVars, ghostVars>>
    /\ UNCHANGED extVars

\* ---- worker thread: _process_requests -----------------------------------

\* trainer initialisation: the thread returns at once without an API key or
\* when GPTTrainer() raises
WorkerInit ==
    /\ workerPc = "init"
    /\ \E ok \in BOOLEAN : workerPc' = IF ok THEN "loop" ELSE "init_failed"
    /\ UNCHANGED <<today, budgetVars, request_queue, active_request,
                   completed_requests, shutdown_event, lock, requests, workerReq,
                   clientVars, adminVars, ghostVars>>
    /\ UNCHANGED extVars

\* `while not self.shutdown_event.is_set()`
WorkerLoop ==
    /\ workerPc = "loop"
    /\ workerPc' = IF shutdown_event THEN "exited" ELSE "get"
    /\ UNCHANGED <<today, budgetVars, request_queue, active_request,
                   completed_requests, shutdown_event, lock, requests, workerReq,
                   clientVars, adminVars, ghostVars>>
    /\ UNCHANGED extVars

\* variant: the worker reads the head of the queue without removing it
WorkerGet_Peek ==
    /\ workerPc = "get"
    /\ IF request_queue = <<>>
       THEN /\ workerPc' = "loop"
            /\ UNCHANGED workerReq
       ELSE /\ workerReq' = Head(request_queue)
            /\ workerPc' = "check"
    /\ UNCHANGED <<today, budgetVars, request_queue, active_request,
                   completed_requests, shutdown_event, lock, requests,
                   clientVars, adminVars, ghostVars>>
    /\ UNCHANGED extVars

\* `request = self.request_queue.get(timeout=1.0)`; Empty -> continue
WorkerGet ==
    /\ workerPc = "get"
    /\ IF request_queue = <<>>
       THEN /\ workerPc' = "loop"
            /\ UNCHANGED <<request_queue, workerReq>>
       ELSE /\ workerReq' = Head(request_queue)
            /\ request_queue' = Tail(request_queue)
            /\ workerPc' = "check"
    /\ UNCHANGED <<today, budgetVars, active_request, completed_requests,
                   shutdown_event, lock, requests, clientVars, adminVars,
                   ghostVars>>
    /\ UNCHANGED extVars

\* variant: the request is marked PROCESSING but not recorded as active
WorkerCheck_NoActive ==
    /\ workerPc = "check"
    /\ lock = "free"
    /\ IF ~CanAcceptRequest(is_paused, calls_used_today, shutdown_event)
       THEN /\ requests' = SetStatus(requests, workerReq, "REJECTED",
                               GetRejectionReason(is_paused, calls_used_today))
            /\ completed_requests' = Append(completed_requests, workerReq)
            /\ workerPc' = "loop"
            /\ workerReq' = None
       ELSE /\ requests' = SetStatus(requests, workerReq, "PROCESSING", "none")
            /\ workerPc' = "call"
            /\ UNCHANGED <<completed_requests, workerReq>>
    /\ UNCHANGED <<today, budgetVars, request_queue, active_request,
                   shutdown_event, lock, clientVars, adminVars, ghostVars>>
    /\ UNCHANGED extVars

\* the first `with self.lock` block: final check before processing
WorkerCheck ==
    /\ workerPc = "check"
    /\ lock = "free"
    /\ IF ~CanAcceptRequest(is_paused, calls_used_today, shutdown_event)
       THEN /\ requests' = SetStatus(requests, workerReq, "REJECTED",
                               GetRejectionReason(is_paused, calls_used_today))
            /\ completed_requests' = Append(completed_requests, workerReq)
            /\ workerPc' = "loop"
            /\ workerReq' = None
            /\ UNCHANGED active_request
       ELSE /\ active_request' = workerReq
            /\ requests' = SetStatus(requests, workerReq, "PROCESSING", "none")
            /\ workerPc' = "call"
            /\ UNCHANGED <<completed_requests, workerReq>>
    /\ UNCHANGED <<today, budgetVars, request_queue, shutdown_event, lock,
                   clientVars, adminVars, ghostVars>>
    /\ UNCHANGED extVars

\* `trainer.evaluate_candidate(request.candidate_data)`, outside the lock:
\* the oracle returns a decision or raises
WorkerCallOracle ==
    /\ workerPc = "call"
    /\ oracleOrder' = Append(oracleOrder, workerReq)
    /\ callsMadeToday' = callsMadeToday + 1
    /\ \E raised \in BOOLEAN :
         workerPc' = IF raised THEN "record_failure" ELSE "record_success"
    /\ UNCHANGED <<today, budgetVars, request_queue, active_request,
                   completed_requests, shutdown_event, lock, requests, workerReq,
                   clientVars, adminVars, accepted>>
    /\ UNCHANGED extVars

\* `with self.lock:` record success
WorkerRecordSuccess ==
    /\ workerPc = "record_success"
    /\ lock = "free"
    /\ calls_used_today' = calls_used_today + 1
    /\ requests' = SetStatus(requests, workerReq, "COMPLETED", "none")
    /\ workerPc' = "move"
    /\ UNCHANGED <<today, last_reset_date, is_paused, pause_reason, request_queue,
                   active_request, completed_requests, shutdown_event, lock,
                   workerReq, clientVars, adminVars, ghostVars>>
    /\ UNCHANGED extVars

\* variant: the oracle's exception is not caught and ends the worker thread
WorkerRecordFailure_Dies ==
    /\ workerPc = "record_failure"
    /\ workerPc' = "exited"
    /\ UNCHANGED <<today, budgetVars, request_queue, active_request,
                   completed_requests, shutdown_event, lock, requests, workerReq,
                   clientVars, adminVars, ghostVars>>
    /\ UNCHANGED extVars

\* `except Exception as e: with self.lock:` record failure
WorkerRecordFailure ==
    /\ workerPc = "record_failure"
    /\ lock = "free"
    /\ requests' = SetStatus(requests, workerReq, "FAILED", "oracle_error")
    /\ workerPc' = "move"
    /\ UNCHANGED <<today, budgetVars, request_queue, active_request,
                   completed_requests, shutdown_event, lock, workerReq,
                   clientVars, adminVars, ghostVars>>
    /\ UNCHANGED extVars

\* `with self.lock:` move to completed list; the callback is always None
WorkerMoveToCompleted ==
    /\ workerPc = "move"
    /\ lock = "free"
    /\ completed_requests' = LimitCompleted(Append(completed_requests, workerReq))
    /\ active_request' = None
    /\ workerPc' = "loop"
    /\ workerReq' = None
    /\ UNCHANGED <<today, budgetVars, request_queue, shutdown_event, lock,
                   requests, clientVars, adminVars, ghostVars>>
    /\ UNCHANGED extVars

\* ---- admin thread: force_process_queue ----------------------------------

\* one pass of `while not self.request_queue.empty()`: the loop test,
\* get_nowait and the status assignment, all made outside the lock.  With
\* the queue empty the call returns without any effect.
ForceProcessQueue ==
    /\ adminPc = "idle"
    /\ request_queue # <<>>
    /\ adminReq' = Head(request_queue)
    /\ request_queue' = Tail(request_queue)
    /\ requests' = SetStatus(requests, Head(request_queue), "REJECTED",
                             "force_cleared")
    /\ adminPc' = "fpq_append"
    /\ UNCHANGED <<today, budgetVars, active_request, completed_requests,
                   shutdown_event, lock, workerVars, clientVars, ghostVars>>
    /\ UNCHANGED extVars

\* `with self.lock: self.completed_requests.append(request)`; the loop then
\* tests the queue again (the next ForceProcessQueue step) or returns
ForceAppend ==
    /\ adminPc = "fpq_append"
    /\ lock = "free"
    /\ completed_requests' = Append(completed_requests, adminReq)
    /\ adminReq' = None
    /\ adminPc' = "idle"
    /\ UNCHANGED <<today, budgetVars, request_queue, active_request,
                   shutdown_event, lock, requests, workerVars, clientVars,
                   ghostVars>>
    /\ UNCHANGED extVars

\* ---- cost optimizer: src/prefilter/cost_optimizer.py ----------------------
\* One caller at a time (the class has no lock and no thread of its own).
\* The field daily_cap of BudgetState is the constant CostDailyCap.

TriggerRecentGptPasses == 3
TriggerSessionLosses == 2
MinScore == 70
RiskyMaxAllowedFlags == 1

CandidateIds == {"c1"}
PrefilterScores == {60, 80}
RiskFactorLists == {<<>>, <<"low_volume">>, <<"lunch_block">>,
                    <<"low_volume", "far_from_vwap">>}
PnlSamples == {-1, 1}
SevereRisks == {"lunch_block", "outside_hours"}

NoReturn == [op |-> "none", allow |-> FALSE, text |-> "none"]

\* CostOptimizer.__init__
CostOptimizerNew ==
    [used_today |-> 0, paused |-> FALSE, paused_reason |-> "None",
     last_reset_date |-> 0, recent_gpt_passes |-> <<>>, session_losses |-> 0,
     returned |-> NoReturn]

\* _maybe_reset_day, as the optimizer afterwards
MaybeResetDay(co) ==
    IF co.last_reset_date # today
    THEN [co EXCEPT !.last_reset_date = today,
                    !.used_today = 0,
                    !.paused = FALSE,
                    !.paused_reason = "None",
                    !.recent_gpt_passes = <<>>]
    ELSE co

RECURSIVE RiskCount(_)
RiskCount(risk_factors) ==
    IF risk_factors = <<>> THEN 0
    ELSE (IF Head(risk_factors) \in SevereRisks THEN 2 ELSE 1)
         + RiskCount(Tail(risk_factors))

\* _is_overly_risky
IsOverlyRisky(risk_factors) == RiskCount(risk_factors) > RiskyMaxAllowedFlags

\* variant: either condition alone triggers the emergency pause
EmergencyTrigger_Either(passes, losses) ==
    Len(passes) >= TriggerRecentGptPasses \/ losses >= TriggerSessionLosses

\* the condition of the emergency pause heuristic
EmergencyTrigger(passes, losses) ==
    Len(passes) >= TriggerRecentGptPasses /\ losses >= TriggerSessionLosses

\* the list after record_gpt_call appended to it: the last N are kept
KeepLastPasses(passes) ==
    IF Len(passes) > TriggerRecentGptPasses
    THEN SubSeq(passes, Len(passes) - TriggerRecentGptPasses + 1, Len(passes))
    ELSE passes

Refuse(co, reason) ==
    [co EXCEPT !.returned =
        [op |-> "should_send_to_gpt", allow |-> FALSE, text |-> reason]]

ResetSession ==
    /\ costOptimizer' = [costOptimizer EXCEPT !.session_losses = 0,
                                              !.recent_gpt_passes = <<>>,
                                              !.returned = NoReturn]
    /\ UNCHANGED <<today, rlVars, calibrator, patternMemory, feedbackLoop, hardNegatives, simulator, wilson>>

NoteTradeOutcome ==
    /\ costOptimizer.session_losses < MaxSessionLosses
    /\ \E pnl_pts \in PnlSamples :
         costOptimizer' =
            [costOptimizer EXCEPT
               !.session_losses = IF pnl_pts < 0 THEN @ + 1 ELSE @,
               !.returned = NoReturn]
    /\ UNCHANGED <<today, rlVars, calibrator, patternMemory, feedbackLoop, hardNegatives, simulator, wilson>>

ShouldSendToGpt ==
    /\ \E prefilter_score \in PrefilterScores :
       \E risk_factors \in RiskFactorLists :
         LET co == MaybeResetDay(costOptimizer)
         IN costOptimizer' =
              IF co.paused
              THEN Refuse(co, IF co.paused_reason # "None"
                              THEN co.paused_reason ELSE "paused")
              ELSE IF co.used_today >= CostDailyCap
              THEN Refuse([co EXCEPT !.paused = TRUE,
                                     !.paused_reason = "daily_cap_exceeded"],
                          "budget_exceeded")
              ELSE IF EmergencyTrigger(co.recent_gpt_passes, co.session_losses)
              THEN Refuse([co EXCEPT !.paused = TRUE,
                                     !.paused_reason =
                                        "emergency_pause_recent_passes_and_losses"],
                          "emergency_pause")
              ELSE IF prefilter_score < MinScore
              THEN Refuse(co, "below_min_score")
              ELSE IF IsOverlyRisky(risk_factors)
              THEN Refuse(co, "too_many_risks")
              ELSE [co EXCEPT !.returned =
                      [op |-> "should_send_to_gpt", allow |-> TRUE, text |-> "ok"]]
    /\ UNCHANGED <<today, rlVars, calibrator, patternMemory, feedbackLoop, hardNegatives, simulator, wilson>>

RecordGptCall ==
    /\ MaybeResetDay(costOptimizer).used_today <= CostDailyCap
    /\ \E candidate_id \in CandidateIds :
         LET co == MaybeResetDay(costOptimizer)
         IN costOptimizer' =
              [co EXCEPT !.used_today = @ + 1,
                         !.recent_gpt_passes =
                             KeepLastPasses(Append(@, candidate_id)),
                         !.returned = NoReturn]
    /\ UNCHANGED <<today, rlVars, calibrator, patternMemory, feedbackLoop, hardNegatives, simulator, wilson>>

CostGetStatus ==
    /\ LET co == MaybeResetDay(costOptimizer)
       IN costOptimizer' =
            [co EXCEPT !.returned =
               [op |-> "get_status", allow |-> FALSE,
                text |-> IF co.paused THEN "paused"
                         ELSE IF co.used_today >= CostDailyCap THEN "exceeded"
                         ELSE "ok"]]
    /\ UNCHANGED <<today, rlVars, calibrator, patternMemory, feedbackLoop, hardNegatives, simulator, wilson>>

\* ---- confidence calibrator: src/gpt/confidence_calibrator.py --------------
\* An entry of trade_history is its 'result' field, the only one read.  A
\* CalibrationEvent keeps trigger_reason, old_floor and new_floor.  An
\* argument object is a record whose domain is the set of its attributes.

BaseConfidenceMin == 85
FloorMin == 82
FloorMax == 92
AdjustmentStep == 2
LowWinRateThreshold == 78
HighWinRateThreshold == 85
TradeHistoryMaxLen == 50
CalibrationHistoryMaxLen == 20
MinTradesToCalibrate == 20

Min(a, b) == IF a < b THEN a ELSE b
Max(a, b) == IF a > b THEN a ELSE b

NoEvent == [trigger_reason |-> "None", old_floor |-> 0, new_floor |-> 0]
CalNoReturn == [op |-> "none", event |-> NoEvent, ok |-> FALSE, value |-> 0]

\* a TradeResult of the simulator with the given pnl_points
TradeResult(pnl) ==
    [pnl_points |-> pnl, exit_reason |-> [value |-> "take_profit"]]

\* ConfidenceCalibrator.__init__ on the date 0.  The fields tape and calls
\* belong to the caller: the pnl_points of the trades it will record first,
\* and the number of calls it made after them.  The field floor_set_on is
\* history: the date of the clock when current_floor was last assigned.
ConfidenceCalibratorNew ==
    [current_floor |-> BaseConfidenceMin, trade_history |-> <<>>,
     calibration_history |-> <<>>, last_reset_date |-> 0,
     returned |-> CalNoReturn, tape |-> <<>>, calls |-> 0, floor_set_on |-> 0]

\* deque(maxlen).append
DequeAppend(d, x, maxlen) ==
    IF Len(d) >= maxlen THEN Append(Tail(d), x) ELSE Append(d, x)

\* _check_daily_reset(current_time), as the calibrator afterwards
CalCheckDailyReset(cal, current_date) ==
    IF current_date > cal.last_reset_date
    THEN [cal EXCEPT !.current_floor = BaseConfidenceMin,
                     !.last_reset_date = current_date]
    ELSE cal

\* variant: the wins of the whole history are counted
TrailingWins_WholeHistory(history) ==
    Cardinality({i \in 1..Len(history) : history[i] = "win"})

\* wins among the last 20 entries, for a history of at least 20
TrailingWins(history) ==
    Cardinality({i \in (Len(history) - 19)..Len(history) : history[i] = "win"})

\* (wins / 20) * 100
WinRate(wins) == (wins * 100) \div 20

\* record_trade_result: the calibrator afterwards, the event returned and
\* whether the call raised (AttributeError on trade_result.pnl_points)
RecordTradeResult(cal, trade_result, timestamp) ==
    LET c1 == CalCheckDailyReset(cal, timestamp)
    IN IF "pnl_points" \notin DOMAIN trade_result
       THEN [cal |-> c1, event |-> NoEvent, raised |-> TRUE]
       ELSE
       LET is_win == trade_result.pnl_points > 0
           c2 == [c1 EXCEPT !.trade_history =
                     DequeAppend(@, IF is_win THEN "win" ELSE "loss",
                                 TradeHistoryMaxLen)]
       IN IF Len(c2.trade_history) < MinTradesToCalibrate
          THEN [cal |-> c2, event |-> NoEvent, raised |-> FALSE]
          ELSE
          LET win_rate == WinRate(TrailingWins(c2.trade_history))
              raisedFloor == Min(FloorMax, c2.current_floor + AdjustmentStep)
              loweredFloor == Max(FloorMin, c2.current_floor - AdjustmentStep)
              Adjusted(reason, floor) ==
                  LET ev == [trigger_reason |-> reason,
                             old_floor |-> c2.current_floor,
                             new_floor |-> floor]
                  IN [cal |-> [c2 EXCEPT
                                 !.current_floor = floor,
                                 !.calibration_history =
                                     DequeAppend(@, ev, CalibrationHistoryMaxLen)],
                      event |-> ev, raised |-> FALSE]
          IN IF win_rate < LowWinRateThreshold /\ c2.current_floor < FloorMax
             THEN Adjusted("win_rate_low", raisedFloor)
             ELSE IF win_rate >= HighWinRateThreshold /\ c2.current_floor > FloorMin
             THEN Adjusted("win_rate_high", loweredFloor)
             ELSE [cal |-> c2, event |-> NoEvent, raised |-> FALSE]

\* variant: every requested floor is accepted
ForceInRange_Any(new_floor) == TRUE

\* the validation of force_adjustment
ForceInRange(new_floor) == FloorMin <= new_floor /\ new_floor <= FloorMax

\* pnl_points of a run of trades: a wins, then b losses, then c wins
Tape(a, b, c) ==
    [i \in 1..(a + b + c) |-> IF i <= a \/ i > a + b THEN 1 ELSE -1]

Tapes ==
    {<<>>} \cup {Tape(0, 19 - w, w) : w \in 13..17}
           \cup {Tape(20, 12, w) : w \in {17}}
           \cup {Tape(0, 10, 39), Tape(3, 30, 17), Tape(0, 25, 25)}

ForceFloors == {81, 82, 87, 92, 93}
CalPnlSamples == {-1, 1}

CalRecordTradeResult ==
    /\ calibrator.calls < MaxCalCalls
    /\ \E pnl \in CalPnlSamples : \E date \in calibrator.last_reset_date..today :
         LET r == RecordTradeResult(calibrator, TradeResult(pnl), date)
         IN /\ calibrator.tape # <<>> => pnl = Head(calibrator.tape)
            /\ calibrator' =
              [r.cal EXCEPT !.tape = IF @ = <<>> THEN @ ELSE Tail(@),
                            !.calls = IF calibrator.tape = <<>> THEN @ + 1 ELSE @,
                            !.floor_set_on =
                                IF r.event # NoEvent
                                   \/ r.cal.last_reset_date # calibrator.last_reset_date
                                THEN today ELSE @,
                            !.returned = [op |-> "record_trade_result",
                                          event |-> r.event,
                                          ok |-> FALSE, value |-> 0]]
    /\ UNCHANGED <<today, rlVars, costOptimizer, patternMemory, feedbackLoop, hardNegatives, simulator, wilson>>

ForceAdjustment ==
    /\ calibrator.tape = <<>>
    /\ calibrator.calls < MaxCalCalls
    /\ \E new_floor \in ForceFloors :
         calibrator' =
           IF ~ForceInRange(new_floor)
           THEN [calibrator EXCEPT
                   !.calls = @ + 1,
                   !.returned = [op |-> "force_adjustment", event |-> NoEvent,
                                 ok |-> FALSE, value |-> new_floor]]
           ELSE LET ev == [trigger_reason |-> "manual_override",
                           old_floor |-> calibrator.current_floor,
                           new_floor |-> new_floor]
                IN [calibrator EXCEPT
                      !.current_floor = new_floor,
                      !.floor_set_on = today,
                      !.calibration_history =
                          DequeAppend(@, ev, CalibrationHistoryMaxLen),
                      !.calls = @ + 1,
                      !.returned = [op |-> "force_adjustment", event |-> ev,
                                    ok |-> TRUE, value |-> new_floor]]
    /\ UNCHANGED <<today, rlVars, costOptimizer, patternMemory, feedbackLoop, hardNegatives, simulator, wilson>>

GetCurrentConfidenceThreshold ==
    /\ calibrator.tape = <<>>
    /\ calibrator.calls < MaxCalCalls
    /\ calibrator' =
         [calibrator EXCEPT
            !.calls = @ + 1,
            !.returned = [op |-> "get_current_confidence_threshold",
                          event |-> NoEvent, ok |-> FALSE,
                          value |-> calibrator.current_floor]]
    /\ UNCHANGED <<today, rlVars, costOptimizer, patternMemory, feedbackLoop, hardNegatives, simulator, wilson>>

\* ---- pattern memory: src/learning/pattern_memory.py ----------------------
\* Times are counted in half days (datetime arithmetic is exact, and
\* timedelta.days is the floor of the whole days).  A fingerprint keeps the
\* fields the status transitions read or write; wr_lo95 is held as its whole
\* percent (floor), ew_win_rate and recent_performance in percent, and
\* ew_expectancy in hundredths of a point.  The fingerprint id stands for
\* the hash of the trade's signature.

MinSamplesForGold == 30
MinWinRateForGold == 82
MinExpectancyForGold == 50
RecencyDays == 7
FreezeMinSamples == 20
FreezeRecentPerformance == 60
FreezeCooldown == 6
ReactivateMinSamples == 10
ReactivateRecentPerformance == 70
StaleDays == 180
HalfDaysPerDay == 2

NoTime == -9999
FingerprintIds == {"p1"}

EmptyFingerprints == [id \in {} |-> 0]

\* no import_patterns is running
NoImport == [pc |-> "idle", payload |-> <<>>, max_patterns |-> 0, count |-> 0]

\* cleanup_old_patterns: days_old and min_samples
CleanupDaysOld == 90
CleanupMinSamples == 5

\* PatternMemory.__init__; the field now is the clock, calls counts the
\* calls made on the memory, op names the last one and importing is the
\* position of a running import_patterns
PatternMemoryNew ==
    [fingerprints |-> EmptyFingerprints, active_patterns |-> {},
     gold_patterns |-> {}, frozen_patterns |-> {}, now |-> 0, calls |-> 0,
     op |-> "none", importing |-> NoImport]

\* timedelta.days
Days(delta) == delta \div HalfDaysPerDay

\* lower Wilson bound * 100 >= k, in integers:
\* wins + z^2/2 - (k/100)(total + z^2) >= z * sqrt(wins(total-wins)/total + z^2/4)
WilsonLoAtLeast(wins, total, k) ==
    LET a == (1000000 * wins + 1920800 - k * (10000 * total + 38416)) \div 1000
        r == (3841600 * wins * (total - wins)) \div total + 3689473
    IN a >= 0 /\ a * a >= r

\* _wilson_interval(wins, total)[0] * 100, rounded down
WilsonLo95(wins, total) ==
    IF total <= 0 THEN 0
    ELSE LET reached == {k \in 1..100 : WilsonLoAtLeast(wins, total, k)}
         IN IF reached = {} THEN 0
            ELSE CHOOSE k \in reached : \A j \in reached : j <= k

\* _ewma(old, new) * 100 with alpha = 0.12, for new = 1.0 or 0.0; old is the
\* stored percentage, so the value grows 88-fold with each update, and a
\* value above EwmaCap is held as EwmaCap (it never falls below it again)
EwmaPercent(old, win) ==
    IF old = 0 THEN (IF win THEN 100 ELSE 0)
    ELSE Min(EwmaCap, 12 * (IF win THEN 1 ELSE 0) + 88 * old)

\* _create_new_fingerprint
NewFingerprint(trade_record) ==
    [status |-> "active", total_samples |-> 0, wins |-> 0, losses |-> 0,
     wr_lo95 |-> 0, ew_win_rate |-> 0, recent_performance |-> 0,
     ew_expectancy |-> 0, last_trade_timestamp |-> trade_record.timestamp,
     cooldown_until |-> NoTime]

\* _update_fingerprint_stats and _recalculate_metrics
UpdateFingerprintStats(fp, trade_record) ==
    LET total == fp.total_samples + 1
        wins == fp.wins + (IF trade_record.result = "win" THEN 1 ELSE 0)
        ew == EwmaPercent(fp.ew_win_rate, trade_record.result = "win")
    IN [fp EXCEPT !.last_trade_timestamp = trade_record.timestamp,
                  !.total_samples = total,
                  !.wins = wins,
                  !.losses = @ + (IF trade_record.result = "loss" THEN 1 ELSE 0),
                  !.ew_win_rate = ew,
                  !.wr_lo95 = WilsonLo95(wins, total),
                  !.recent_performance = IF @ > ew THEN @ ELSE ew]

InCooldown(fp, now) == fp.cooldown_until # NoTime /\ now < fp.cooldown_until

\* variant: the credible win rate is not required
PromotionDue_NoCredible(fp, now) ==
    /\ fp.status = "active"
    /\ fp.total_samples >= MinSamplesForGold
    /\ fp.last_trade_timestamp # NoTime
    /\ Days(now - fp.last_trade_timestamp) <= RecencyDays
    /\ fp.ew_expectancy >= MinExpectancyForGold

\* the condition of the promotion to GOLD
PromotionDue(fp, now) ==
    /\ fp.status = "active"
    /\ fp.total_samples >= MinSamplesForGold
    /\ fp.wr_lo95 >= MinWinRateForGold
    /\ fp.last_trade_timestamp # NoTime
    /\ Days(now - fp.last_trade_timestamp) <= RecencyDays
    /\ fp.ew_expectancy >= MinExpectancyForGold

\* variant: the expectancy is not required to be negative
FreezeDue_AnyExpectancy(fp) ==
    /\ fp.total_samples >= FreezeMinSamples
    /\ fp.recent_performance < FreezeRecentPerformance

\* the condition of the freeze
FreezeDue(fp) ==
    /\ fp.total_samples >= FreezeMinSamples
    /\ fp.recent_performance < FreezeRecentPerformance
    /\ fp.ew_expectancy < 0

ReactivationDue(fp) ==
    /\ fp.status = "frozen"
    /\ fp.total_samples >= ReactivateMinSamples
    /\ fp.recent_performance > ReactivateRecentPerformance
    /\ fp.ew_expectancy >= 0

\* _check_status_changes on the fingerprint id, with _promote_to_gold,
\* _freeze_pattern and _reactivate_pattern: the memory afterwards
CheckStatusChanges(pm, id) ==
    LET fp == pm.fingerprints[id]
        now == pm.now
    IN IF InCooldown(fp, now) THEN pm
       ELSE IF PromotionDue(fp, now)
       THEN [pm EXCEPT !.fingerprints[id].status = "gold",
                       !.active_patterns = @ \ {id},
                       !.gold_patterns = @ \cup {id}]
       ELSE IF FreezeDue(fp)
       THEN [pm EXCEPT !.fingerprints[id].status = "frozen",
                       !.fingerprints[id].cooldown_until = now + FreezeCooldown,
                       !.active_patterns = @ \ {id},
                       !.gold_patterns = @ \ {id},
                       !.frozen_patterns = @ \cup {id}]
       ELSE IF ReactivationDue(fp)
       THEN [pm EXCEPT !.fingerprints[id].status = "active",
                       !.fingerprints[id].cooldown_until = NoTime,
                       !.frozen_patterns = @ \ {id},
                       !.active_patterns = @ \cup {id}]
       ELSE pm

Known(pm, id) == id \in DOMAIN pm.fingerprints

WithFingerprint(pm, id, fp) ==
    [pm EXCEPT !.fingerprints =
        [x \in DOMAIN pm.fingerprints \cup {id} |->
            IF x = id THEN fp ELSE pm.fingerprints[x]]]

\* update_pattern_stats: the memory afterwards and whether the call raised
\* (TypeError in _generate_fingerprint_id on a None atr_5m or
\* confluence_factors, before anything is changed)
UpdatePatternStats(pm, trade_record) ==
    IF trade_record.atr_5m = "None" \/ trade_record.confluence_factors = "None"
    THEN [pm |-> pm, raised |-> TRUE]
    ELSE LET id == trade_record.signature
             created == IF Known(pm, id) THEN pm
                        ELSE [WithFingerprint(pm, id, NewFingerprint(trade_record))
                                EXCEPT !.active_patterns = @ \cup {id}]
             updated == WithFingerprint(created, id,
                           UpdateFingerprintStats(created.fingerprints[id],
                                                  trade_record))
         IN [pm |-> CheckStatusChanges(updated, id), raised |-> FALSE]

\* the trades handed to update_pattern_stats
PmResults == {"win", "loss"}
PmTradeAges == {0, 15, 16}
PmTradeRecord(id, result, timestamp) ==
    [signature |-> id, result |-> result, timestamp |-> timestamp,
     atr_5m |-> "normal", confluence_factors |-> "list"]

\* the entries of an import blob
ImportStatuses == {"active", "gold", "frozen"}
ImportSamples == {19, 29, 32}
ImportLosses == {0, 3}
ImportWrLo95 == {80, 83}
ImportExpectancies == {-10, 60}
ImportEwWinRates == {0, 70}
ImportAges == {4, 362}
ImportCooldowns == {NoTime, 2}

\* import_patterns with a blob of one entry, whose last trade was age half
\* days ago; a stale entry is skipped
ImportPatterns ==
    /\ patternMemory.calls = 0
    /\ \E id \in FingerprintIds, status \in ImportStatuses,
          total \in ImportSamples, lost \in ImportLosses,
          lo \in ImportWrLo95, ew_win \in ImportEwWinRates,
          ew_exp \in ImportExpectancies,
          age \in ImportAges, cooldown \in ImportCooldowns :
         patternMemory' =
           IF Days(age) > StaleDays
           THEN [patternMemory EXCEPT !.calls = @ + 1, !.op = "import_patterns"]
           ELSE
              [WithFingerprint(patternMemory, id,
                  [status |-> status, total_samples |-> total,
                   wins |-> total - lost, losses |-> lost, wr_lo95 |-> lo,
                   ew_win_rate |-> ew_win, recent_performance |-> 0,
                   ew_expectancy |-> ew_exp,
                   last_trade_timestamp |-> patternMemory.now - age,
                   cooldown_until |-> cooldown])
               EXCEPT !.gold_patterns =
                          IF status = "gold" THEN @ \cup {id} ELSE @,
                      !.active_patterns =
                          IF status = "active" THEN @ \cup {id} ELSE @,
                      !.frozen_patterns =
                          IF status \notin {"gold", "active"} THEN @ \cup {id} ELSE @,
                      !.calls = @ + 1, !.op = "import_patterns"]
    /\ UNCHANGED <<today, rlVars, costOptimizer, calibrator, feedbackLoop, hardNegatives, simulator, wilson>>

PmUpdatePatternStats ==
    /\ patternMemory.calls < MaxPmCalls
    /\ \E id \in FingerprintIds, result \in PmResults, age \in PmTradeAges :
         patternMemory' =
           [UpdatePatternStats(patternMemory,
                PmTradeRecord(id, result, patternMemory.now - age)).pm
            EXCEPT !.calls = @ + 1, !.op = "update_pattern_stats"]
    /\ UNCHANGED <<today, rlVars, costOptimizer, calibrator, feedbackLoop, hardNegatives, simulator, wilson>>

\* _check_status_changes called on a stored fingerprint as it is
PmCheckStatusChanges ==
    /\ patternMemory.calls < MaxPmCalls
    /\ \E id \in DOMAIN patternMemory.fingerprints :
         patternMemory' =
           [CheckStatusChanges(patternMemory, id)
            EXCEPT !.calls = @ + 1, !.op = "_check_status_changes"]
    /\ UNCHANGED <<today, rlVars, costOptimizer, calibrator, feedbackLoop, hardNegatives, simulator, wilson>>

\* the clock of the pattern memory advances by half a day or by three days
PmTick ==
    /\ patternMemory.importing.pc = "idle"
    /\ patternMemory.now < MaxPmNow
    /\ \E d \in {1, FreezeCooldown} :
         patternMemory' = [patternMemory EXCEPT !.now = @ + d]
    /\ UNCHANGED <<today, rlVars, costOptimizer, calibrator, feedbackLoop, hardNegatives, simulator, wilson>>

\* ---- pattern memory: the fingerprint id and the store ----------------------
\* ATR, volume multiple and VWAP distance are in hundredths.  A string list
\* is a sequence; the names the confluence factors are drawn from are
\* "ema" < "vol" < "vwap" in Python's string order.

RECURSIVE JoinBar(_)
\* '|'.join(parts)
JoinBar(parts) ==
    IF parts = <<>> THEN ""
    ELSE IF Len(parts) = 1 THEN parts[1]
    ELSE parts[1] \o "|" \o JoinBar(Tail(parts))

\* sorted(factors) for factors drawn from "ema", "vol", "vwap"
SortedFactors(factors) ==
    LET Of(name) == SelectSeq(factors, LAMBDA f : f = name)
    IN Of("ema") \o Of("vol") \o Of("vwap")

\* _bin_atr
BinAtr(atr) ==
    IF atr < 80 THEN "low"
    ELSE IF atr < 120 THEN "normal"
    ELSE IF atr < 160 THEN "elevated"
    ELSE "high"

\* _bin_volume_multiple
BinVolumeMultiple(volume_multiple) ==
    IF volume_multiple < 150 THEN "low"
    ELSE IF volume_multiple < 200 THEN "normal"
    ELSE IF volume_multiple < 250 THEN "high"
    ELSE "extreme"

\* _bin_ema_alignment
BinEmaAlignment(alignment) == alignment

\* _bin_vwap_distance
BinVwapDistance(distance) ==
    LET abs_distance == IF distance < 0 THEN -distance ELSE distance
    IN IF abs_distance < 50 THEN "near"
       ELSE IF abs_distance < 100 THEN "medium"
       ELSE "far"

\* '|'.join(sorted(confluence_factors[:3]))
TopConfluences(confluence_factors) ==
    JoinBar(SortedFactors(SubSeq(confluence_factors, 1,
                                 Min(3, Len(confluence_factors)))))

\* variant: the confluence factors are joined in the order given
GenerateFingerprintId_Unsorted(trade) ==
    "pattern_" \o JoinBar(<<trade.setup_type, trade.session, trade.direction,
                            BinAtr(trade.atr_5m),
                            BinVolumeMultiple(trade.volume_multiple),
                            BinEmaAlignment(trade.ema_alignment),
                            BinVwapDistance(trade.vwap_distance),
                            JoinBar(SubSeq(trade.confluence_factors, 1,
                                           Min(3, Len(trade.confluence_factors)))),
                            trade.market_regime>>)

\* _generate_fingerprint_id; the signature string stands for its md5 digest
\* (two signature strings that differ are two ids)
GenerateFingerprintId(trade) ==
    "pattern_" \o JoinBar(<<trade.setup_type, trade.session, trade.direction,
                            BinAtr(trade.atr_5m),
                            BinVolumeMultiple(trade.volume_multiple),
                            BinEmaAlignment(trade.ema_alignment),
                            BinVwapDistance(trade.vwap_distance),
                            TopConfluences(trade.confluence_factors),
                            trade.market_regime>>)

\* the trades of the store: two ATR values in the bin "normal" and one in
\* "elevated", a VWAP distance on either side, the same factors in two orders
TradeAtrs == {90, 110, 130}
TradeVwapDistances == {30, -30}
TradeConfluences == {<<"vwap", "ema">>, <<"ema", "vwap">>}
Trades ==
    {[setup_type |-> "orb", session |-> "am", direction |-> "long",
      atr_5m |-> atr, volume_multiple |-> 180, ema_alignment |-> "mixed",
      vwap_distance |-> distance, confluence_factors |-> factors,
      market_regime |-> "trend"] :
        atr \in TradeAtrs, distance \in TradeVwapDistances,
        factors \in TradeConfluences}

\* the TradeRecord update_pattern_stats receives: its field signature holds
\* what _generate_fingerprint_id makes of it
TradeRecordOf(trade, result, timestamp) ==
    PmTradeRecord(GenerateFingerprintId(trade), result, timestamp)

\* update_pattern_stats on a trade of the store
PmUpdateTrade ==
    /\ patternMemory.importing.pc = "idle"
    /\ patternMemory.calls < MaxPmCalls
    /\ \E trade \in Trades, result \in PmResults :
         patternMemory' =
           [UpdatePatternStats(patternMemory,
                TradeRecordOf(trade, result, patternMemory.now)).pm
            EXCEPT !.calls = @ + 1, !.op = "update_pattern_stats"]
    /\ UNCHANGED <<today, rlVars, costOptimizer, calibrator, feedbackLoop, hardNegatives, simulator, wilson>>

\* the entries of a blob: status, total_samples and the age of the last
\* trade in half days (NoTime: the entry has no 'last_trade'); 361 half days
\* are 180 days and 12 hours, 362 are 181 days
EntryKinds ==
    {<<"gold", 32, 4>>, <<"active", 3, 361>>, <<"active", 3, 362>>,
     <<"active", 3, NoTime>>}
StoreIds == {GenerateFingerprintId(trade) : trade \in Trades}
BlobEntry(fid, kind, now) ==
    [fid |-> fid, status |-> kind[1], total_samples |-> kind[2],
     last_trade |-> IF kind[3] = NoTime THEN NoTime ELSE now - kind[3]]
\* blob['fingerprints'] in the order of its items: one or two entries,
\* whose ids differ
Blobs(now) ==
    LET Entries == {BlobEntry(fid, kind, now) : fid \in StoreIds, kind \in EntryKinds}
    IN {<<e>> : e \in Entries}
       \cup {pair \in {<<e1, e2>> : e1 \in Entries, e2 \in Entries} :
                 pair[1].fid # pair[2].fid}
MaxPatterns == {1, 2}

\* the PatternFingerprint import_patterns builds from an entry
ImportedFingerprint(entry) ==
    [status |-> entry.status, total_samples |-> entry.total_samples,
     wins |-> entry.total_samples, losses |-> 0, wr_lo95 |-> 83,
     ew_win_rate |-> 70, recent_performance |-> 0, ew_expectancy |-> 60,
     last_trade_timestamp |-> entry.last_trade, cooldown_until |-> NoTime]

\* variant: an entry without a last trade is not passed over
ImportSkips_Stale(pm, entry) ==
    /\ entry.last_trade # NoTime
    /\ Days(pm.now - entry.last_trade) > StaleDays

\* whether import_patterns passes over the entry ('continue')
ImportSkips(pm, entry) ==
    \/ entry.last_trade = NoTime
    \/ Days(pm.now - entry.last_trade) > StaleDays

\* one iteration of the loop of import_patterns, on the first entry left;
\* the import returns at the cap ('break') and after the last entry
ImportPatternsLoop(pm) ==
    LET entry == Head(pm.importing.payload)
        rest == Tail(pm.importing.payload)
        fid == entry.fid
        continued(q) == IF rest = <<>> THEN [q EXCEPT !.importing = NoImport]
                        ELSE [q EXCEPT !.importing.payload = rest]
    IN IF Cardinality(DOMAIN pm.fingerprints) >= pm.importing.max_patterns
       THEN [pm EXCEPT !.importing = NoImport]
       ELSE IF ImportSkips(pm, entry) THEN continued(pm)
       ELSE continued(
              [WithFingerprint(pm, fid, ImportedFingerprint(entry))
               EXCEPT !.gold_patterns =
                          IF entry.status = "gold" THEN @ \cup {fid} ELSE @,
                      !.active_patterns =
                          IF entry.status = "active" THEN @ \cup {fid} ELSE @,
                      !.frozen_patterns =
                          IF entry.status \notin {"gold", "active"}
                          THEN @ \cup {fid} ELSE @,
                      !.importing.count = @ + 1])

\* import_patterns is called with a blob and a cap
PmImportPatterns ==
    /\ patternMemory.importing.pc = "idle"
    /\ patternMemory.calls < MaxPmCalls
    /\ \E payload \in Blobs(patternMemory.now), max_patterns \in MaxPatterns :
         patternMemory' =
           [patternMemory EXCEPT
              !.importing = [pc |-> "loop", payload |-> payload,
                             max_patterns |-> max_patterns, count |-> 0],
              !.calls = @ + 1, !.op = "import_patterns"]
    /\ UNCHANGED <<today, rlVars, costOptimizer, calibrator, feedbackLoop, hardNegatives, simulator, wilson>>

PmImportEntry ==
    /\ patternMemory.importing.pc = "loop"
    /\ patternMemory' = ImportPatternsLoop(patternMemory)
    /\ UNCHANGED <<today, rlVars, costOptimizer, calibrator, feedbackLoop, hardNegatives, simulator, wilson>>

\* _remove_pattern on each of the ids
RemovePatterns(pm, ids) ==
    [pm EXCEPT !.fingerprints = [x \in DOMAIN pm.fingerprints \ ids |-> pm.fingerprints[x]],
               !.active_patterns = @ \ ids,
               !.gold_patterns = @ \ ids,
               !.frozen_patterns = @ \ ids]

\* cleanup_old_patterns with its defaults
CleanupOldPatterns(pm) ==
    LET cutoff_date == pm.now - CleanupDaysOld * HalfDaysPerDay
        patterns_to_remove ==
            {id \in DOMAIN pm.fingerprints :
                /\ pm.fingerprints[id].status # "gold"
                /\ pm.fingerprints[id].last_trade_timestamp < cutoff_date
                /\ pm.fingerprints[id].total_samples < CleanupMinSamples}
    IN RemovePatterns(pm, patterns_to_remove)

PmCleanupOldPatterns ==
    /\ patternMemory.importing.pc = "idle"
    /\ patternMemory' = [CleanupOldPatterns(patternMemory)
                         EXCEPT !.op = "cleanup_old_patterns"]
    /\ UNCHANGED <<today, rlVars, costOptimizer, calibrator, feedbackLoop, hardNegatives, simulator, wilson>>

\* the trade of a streak: update_pattern_stats is called again and again
\* with one signature and one result, each trade made at the time of the call
StreakTrade == CHOOSE trade \in Trades : TRUE
PmStreakTrade ==
    /\ patternMemory.importing.pc = "idle"
    /\ \A id \in DOMAIN patternMemory.fingerprints :
          patternMemory.fingerprints[id].total_samples < MaxStreak
    /\ \E result \in PmResults :
         /\ \A id \in DOMAIN patternMemory.fingerprints :
               (result = "win") <=> (patternMemory.fingerprints[id].wins > 0)
         /\ patternMemory' =
              [UpdatePatternStats(patternMemory,
                   TradeRecordOf(StreakTrade, result, patternMemory.now)).pm
               EXCEPT !.calls = @ + 1, !.op = "update_pattern_stats"]
    /\ UNCHANGED <<today, rlVars, costOptimizer, calibrator, feedbackLoop, hardNegatives, simulator, wilson>>

\* ---- src/learning/hard_negatives.py: HardNegatives -------------------------
\* Times are in days; match scores, Wilson bounds and severities in
\* hundredths; pnl in tenths of a point.  The source file ends inside the
\* declaration of _extract_and_bin_features: that function, _bin_value,
\* _generate_template_id, _match_score and _template_public_view are not in
\* it.  The binned features of a trade or candidate are one label (bins); the
\* extraction either returns them or raises.

HighConfidence == 90      \* thresholds.high_confidence
MinVetoScore == 100       \* thresholds.min_veto_score, 1.0
MinLossLb == 60           \* thresholds.min_loss_lb, 0.60
RegimePenalty == 50       \* matching.regime_penalty, 0.5
SessionPenalty == 25      \* matching.session_penalty, 0.25
CooldownDays == 3         \* maintenance.cooldown_days
ExpiryDays == 30          \* maintenance.expiry_days
DefaultMaxTemplates == 4000
BestScoreFloor == -1000000000

Setups == {"orb", "fade"}
FeatureBins == {"b0", "b1"}
NoTemplateId == <<"None", "None">>

\* _generate_template_id(setup_type, features): one id per setup and features
GenerateTemplateId(setup_type, features) == <<setup_type, features>>

TemplateIds == {GenerateTemplateId(s, b) : s \in Setups, b \in FeatureBins}

HnNoReturn ==
    [op |-> "none", veto |-> FALSE, score |-> 0, matched_template |-> NoTemplateId,
     template |-> NoTemplateId, raised |-> FALSE, count |-> 0]

\* HardNegatives.__init__; now is the clock _now_utc reads, calls counts the
\* calls made by the callers of the model
HardNegativesNew ==
    [templates |-> [id \in {} |-> 0],
     templates_by_setup |-> [s \in Setups |-> <<>>],
     now |-> 0, calls |-> 0, returned |-> HnNoReturn]

\* NoTradeTemplate(...) of process_loss.  The field last_veto is history: the
\* time of the last veto the template fired.
NewTemplate(trade_record, now) ==
    [setup_type |-> trade_record.setup_type, session |-> trade_record.session,
     regime |-> trade_record.market_regime, bins |-> trade_record.bins,
     creation_timestamp |-> now,
     severity_sum |-> 0, samples |-> 0, total_checks |-> 0, vetoes |-> 0,
     passed |-> 0, true_saves |-> 0, false_vetoes |-> 0,
     post_pass_losses |-> 0, post_pass_wins |-> 0,
     last_match_timestamp |-> NoTime, cooldown_until |-> NoTime,
     loss_rate_lo95 |-> 0, save_rate_lo95 |-> 0, last_veto |-> NoTime]

\* _wilson_interval(success, total)[0] of hard_negatives.py, the same formula
HnWilsonLo95(success, total) == WilsonLo95(success, total)

Abs(x) == IF x < 0 THEN -x ELSE x

\* abs(pnl_pts) * max(1.0, (gpt_confidence - 80) / 10.0)
Severity(trade_record) ==
    Abs(trade_record.pnl_pts) * Max(10, trade_record.gpt_confidence - 80)

\* variant: any loss qualifies
Qualifies_AnyConfidence(trade_record) == trade_record.result = "loss"

\* the guard of process_loss
Qualifies(trade_record) ==
    ~(trade_record.result # "loss"
        \/ trade_record.gpt_confidence < HighConfidence)

\* variant: the merge recomputes the credibility from the raw losses
MergeLoss_Credible(t, trade_record) ==
    [t EXCEPT !.severity_sum = @ + Severity(trade_record),
              !.samples = @ + 1,
              !.loss_rate_lo95 = HnWilsonLo95(t.samples + 1, t.samples + 1)]

\* the severity aggregate of process_loss
MergeLoss(t, trade_record) ==
    [t EXCEPT !.severity_sum = @ + Severity(trade_record),
              !.samples = @ + 1]

HnWithTemplate(hn, id, t) ==
    [hn EXCEPT !.templates =
        [x \in DOMAIN hn.templates \cup {id} |->
            IF x = id THEN t ELSE hn.templates[x]]]

\* process_loss: the object afterwards, the id of the template returned and
\* whether the call raised
ProcessLoss(hn, trade_record, binning_raises) ==
    IF ~Qualifies(trade_record)
    THEN [hn |-> hn, template |-> NoTemplateId, raised |-> FALSE]
    ELSE IF binning_raises
    THEN [hn |-> hn, template |-> NoTemplateId, raised |-> TRUE]
    ELSE
    LET id == GenerateTemplateId(trade_record.setup_type, trade_record.bins)
        created ==
            IF id \in DOMAIN hn.templates THEN hn
            ELSE [HnWithTemplate(hn, id, NewTemplate(trade_record, hn.now))
                    EXCEPT !.templates_by_setup[trade_record.setup_type] =
                              Append(@, id)]
    IN [hn |-> HnWithTemplate(created, id,
                   MergeLoss(created.templates[id], trade_record)),
        template |-> id, raised |-> FALSE]

\* _match_score(c, cand_features, t)[0]: the similarity of the candidate's
\* features to the template's, less the penalties for another regime and
\* another session
MatchScore(c, t) ==
    c.similarity[t.bins]
      - (IF c.market_regime # t.regime THEN RegimePenalty ELSE 0)
      - (IF c.session_label # t.session THEN SessionPenalty ELSE 0)

\* variant: no template is skipped
CooledDown_Never(t, now) == FALSE

\* the cooldown test of check_candidate_against_templates
CooledDown(t, now) == t.cooldown_until # NoTime /\ now < t.cooldown_until

\* the loop of check_candidate_against_templates over the ids of the setup
RECURSIVE ScanTemplates(_, _, _, _, _, _)
ScanTemplates(templates, ids, c, now, best, best_score) ==
    IF ids = <<>>
    THEN [templates |-> templates, best |-> best, best_score |-> best_score]
    ELSE LET tid == Head(ids)
             t == templates[tid]
             score == MatchScore(c, t)
         IN IF CooledDown(t, now)
            THEN ScanTemplates(templates, Tail(ids), c, now, best, best_score)
            ELSE ScanTemplates(
                   [templates EXCEPT ![tid].total_checks = @ + 1,
                                     ![tid].last_match_timestamp = now],
                   Tail(ids), c, now,
                   IF score > best_score THEN tid ELSE best,
                   IF score > best_score THEN score ELSE best_score)

\* check_candidate_against_templates: the object afterwards with the
\* dictionary returned
CheckCandidate(hn, c, binning_raises) ==
    IF binning_raises
    THEN [hn EXCEPT !.returned =
             [HnNoReturn EXCEPT !.op = "check", !.raised = TRUE]]
    ELSE
    LET scan == ScanTemplates(hn.templates, hn.templates_by_setup[c.setup_type],
                              c, hn.now, NoTemplateId, BestScoreFloor)
        best == scan.best
    IN IF best = NoTemplateId
       THEN [hn EXCEPT !.templates = scan.templates,
                       !.returned = [HnNoReturn EXCEPT !.op = "check"]]
       ELSE IF scan.best_score >= MinVetoScore
               /\ scan.templates[best].loss_rate_lo95 >= MinLossLb
       THEN [hn EXCEPT
               !.templates =
                  [scan.templates EXCEPT
                      ![best].vetoes = @ + 1,
                      ![best].cooldown_until = hn.now + CooldownDays,
                      ![best].last_veto = hn.now],
               !.returned =
                  [HnNoReturn EXCEPT !.op = "check", !.veto = TRUE,
                                     !.score = scan.best_score,
                                     !.matched_template = best]]
       ELSE [hn EXCEPT
               !.templates = [scan.templates EXCEPT ![best].passed = @ + 1],
               !.returned =
                  [HnNoReturn EXCEPT !.op = "check",
                                     !.score = scan.best_score,
                                     !.matched_template = best]]

OutcomeKinds ==
    {"true_save", "false_veto", "post_pass_loss", "post_pass_win", "other"}

\* record_outcome_feedback(template_id, outcome)
RecordOutcomeFeedback(hn, template_id, outcome) ==
    LET done == [HnNoReturn EXCEPT !.op = "record_outcome_feedback"]
    IN IF template_id \notin DOMAIN hn.templates
          \/ outcome \notin OutcomeKinds \ {"other"}
       THEN [hn EXCEPT !.returned = done]
       ELSE
       LET t0 == hn.templates[template_id]
           t1 == [t0 EXCEPT
                    !.true_saves = @ + (IF outcome = "true_save" THEN 1 ELSE 0),
                    !.false_vetoes = @ + (IF outcome = "false_veto" THEN 1 ELSE 0),
                    !.post_pass_losses =
                        @ + (IF outcome = "post_pass_loss" THEN 1 ELSE 0),
                    !.post_pass_wins =
                        @ + (IF outcome = "post_pass_win" THEN 1 ELSE 0)]
           total_allowed == t1.post_pass_losses + t1.post_pass_wins
           total_vetoed == t1.true_saves + t1.false_vetoes
           t2 == [t1 EXCEPT
                    !.loss_rate_lo95 =
                        IF total_allowed > 0
                        THEN HnWilsonLo95(t1.post_pass_losses, total_allowed)
                        ELSE @,
                    !.save_rate_lo95 =
                        IF total_vetoed > 0
                        THEN HnWilsonLo95(t1.true_saves, total_vetoed)
                        ELSE @]
           t3 == IF t2.false_vetoes >= 3
                    /\ t2.true_saves < Max(1, t2.false_vetoes)
                 THEN [t2 EXCEPT !.cooldown_until = hn.now + CooldownDays]
                 ELSE t2
       IN [HnWithTemplate(hn, template_id, t3) EXCEPT !.returned = done]

\* _template_from_blob(tid, data), for the entries export_templates writes
TemplateFromBlob(tid, data) ==
    [setup_type |-> data.setup_type, session |-> data.session,
     regime |-> data.regime, bins |-> data.bins,
     creation_timestamp |-> data.creation_timestamp,
     severity_sum |-> data.severity_sum, samples |-> data.samples,
     total_checks |-> data.total_checks, vetoes |-> data.vetoes,
     passed |-> data.passed, true_saves |-> data.true_saves,
     false_vetoes |-> data.false_vetoes,
     post_pass_losses |-> data.post_pass_losses,
     post_pass_wins |-> data.post_pass_wins,
     last_match_timestamp |-> data.last_match,
     cooldown_until |-> data.cooldown_until,
     loss_rate_lo95 |-> data.loss_rate_lo95,
     save_rate_lo95 |-> data.save_rate_lo95, last_veto |-> NoTime]

\* import_templates(blob, max_templates): payload is the sequence of the
\* blob's items
RECURSIVE ImportLoop(_, _, _, _)
ImportLoop(hn, payload, max_templates, count) ==
    IF payload = <<>> \/ Cardinality(DOMAIN hn.templates) >= max_templates
    THEN [hn EXCEPT !.returned =
             [HnNoReturn EXCEPT !.op = "import_templates", !.count = count]]
    ELSE LET tid == Head(payload).tid
             t == TemplateFromBlob(tid, Head(payload))
         IN ImportLoop(
              [HnWithTemplate(hn, tid, t)
                 EXCEPT !.templates_by_setup[t.setup_type] = Append(@, tid)],
              Tail(payload), max_templates, count + 1)

\* the entries of an export: the statistics a template has after the
\* feedback it received, consistently with record_outcome_feedback
ImportedStats ==
    {[post_pass_losses |-> 0, false_vetoes |-> 0],
     [post_pass_losses |-> 5, false_vetoes |-> 0],
     [post_pass_losses |-> 7, false_vetoes |-> 2]}
ImportedCooldowns == {NoTime}
ImportedIds ==
    {GenerateTemplateId("orb", "b0"), GenerateTemplateId("orb", "b1")}
ImportEntry(tid, stats, cooldown_until) ==
    [tid |-> tid, setup_type |-> tid[1], bins |-> tid[2], session |-> "am",
     regime |-> "mixed", severity_sum |-> 150, samples |-> 1,
     total_checks |-> 0, vetoes |-> 0, passed |-> 0, true_saves |-> 0,
     false_vetoes |-> stats.false_vetoes,
     post_pass_losses |-> stats.post_pass_losses, post_pass_wins |-> 0,
     loss_rate_lo95 |->
        HnWilsonLo95(stats.post_pass_losses, stats.post_pass_losses),
     save_rate_lo95 |-> 0, last_match |-> NoTime, creation_timestamp |-> 0,
     cooldown_until |-> cooldown_until]
ImportEntries ==
    {ImportEntry(tid, stats, cd) :
        tid \in ImportedIds, stats \in ImportedStats, cd \in ImportedCooldowns}
ImportPayloads ==
    {<<e>> : e \in ImportEntries}
      \cup {<<e1, e2>> : e1 \in {e \in ImportEntries : e.tid[2] = "b0"},
                         e2 \in {e \in ImportEntries : e.tid[2] = "b1"}}
MaxTemplatesArgs == {1, DefaultMaxTemplates}

\* the candidates and trades handed to the hard negatives
HnSimilarities == [FeatureBins -> {120, 150}]
HnContexts == {<<"am", "mixed">>, <<"pm", "mixed">>, <<"am", "volatile">>}
HnCandidate(setup_type, session, regime, similarity) ==
    [setup_type |-> setup_type, session_label |-> session,
     market_regime |-> regime, similarity |-> similarity]
HnCandidates ==
    {HnCandidate(setup_type, context[1], context[2], similarity) :
        setup_type \in Setups, context \in HnContexts,
        similarity \in HnSimilarities}
HnOutcomes == {<<"loss", -10, 95>>, <<"loss", -10, 85>>, <<"win", 10, 95>>}
HnTradeRecord(outcome, bins) ==
    [result |-> outcome[1], pnl_pts |-> outcome[2],
     gpt_confidence |-> outcome[3], setup_type |-> "orb", bins |-> bins,
     session |-> "am", market_regime |-> "mixed"]

\* import_templates on the empty store, before any other call
HnImportTemplates ==
    /\ hardNegatives.calls = 0
    /\ hardNegatives.returned.op = "none"
    /\ \E payload \in ImportPayloads, max_templates \in MaxTemplatesArgs :
         hardNegatives' = ImportLoop(hardNegatives, payload, max_templates, 0)
    /\ UNCHANGED <<today, rlVars, costOptimizer, calibrator, patternMemory,
                   feedbackLoop, simulator, wilson>>

HnProcessLoss ==
    /\ hardNegatives.calls < MaxHnCalls
    /\ \E outcome \in HnOutcomes, bins \in FeatureBins,
          binning_raises \in BOOLEAN :
         LET r == ProcessLoss(hardNegatives, HnTradeRecord(outcome, bins),
                              binning_raises)
         IN hardNegatives' =
              [r.hn EXCEPT !.calls = @ + 1,
                           !.returned =
                              [HnNoReturn EXCEPT !.op = "process_loss",
                                                 !.template = r.template,
                                                 !.raised = r.raised]]
    /\ UNCHANGED <<today, rlVars, costOptimizer, calibrator, patternMemory,
                   feedbackLoop, simulator, wilson>>

HnCheckCandidate ==
    /\ hardNegatives.calls < MaxHnCalls
    /\ \E c \in HnCandidates, binning_raises \in BOOLEAN :
         hardNegatives' =
           [CheckCandidate(hardNegatives, c, binning_raises)
            EXCEPT !.calls = @ + 1]
    /\ UNCHANGED <<today, rlVars, costOptimizer, calibrator, patternMemory,
                   feedbackLoop, simulator, wilson>>

HnRecordOutcomeFeedback ==
    /\ hardNegatives.calls < MaxHnCalls
    /\ \E template_id \in DOMAIN hardNegatives.templates
                             \cup {GenerateTemplateId("fade", "b1")},
          outcome \in OutcomeKinds :
         hardNegatives' =
           [RecordOutcomeFeedback(hardNegatives, template_id, outcome)
            EXCEPT !.calls = @ + 1]
    /\ UNCHANGED <<today, rlVars, costOptimizer, calibrator, patternMemory,
                   feedbackLoop, simulator, wilson>>

\* a day passes
HnTick ==
    /\ hardNegatives.now < MaxHnNow
    /\ hardNegatives' = [hardNegatives EXCEPT !.now = @ + 1]
    /\ UNCHANGED <<today, rlVars, costOptimizer, calibrator, patternMemory,
                   feedbackLoop, simulator, wilson>>

\* ---- hard negatives: the store under imports and removals ------------------

\* list.remove(x): the list without the first x; ValueError is passed over
RemoveFirst(list, x) ==
    SelectSeq([i \in 1..Len(list) |-> <<i, list[i]>>],
              LAMBDA p : ~(p[2] = x /\ \A j \in 1..(p[1] - 1) : list[j] # x))

\* the ids of a list of <<index, id>>
IdsOf(list) == [i \in 1..Len(list) |-> list[i][2]]

\* _remove_template(template_id): the object afterwards
RemoveTemplate(hn, template_id) ==
    IF template_id \notin DOMAIN hn.templates THEN hn
    ELSE LET t == hn.templates[template_id]
         IN [hn EXCEPT
               !.templates_by_setup[t.setup_type] = IdsOf(RemoveFirst(@, template_id)),
               !.templates = [x \in DOMAIN hn.templates \ {template_id} |->
                                 hn.templates[x]]]

RECURSIVE RemoveTemplates(_, _)
\* _remove_template on each id of to_remove
RemoveTemplates(hn, to_remove) ==
    IF to_remove = {} THEN hn
    ELSE LET tid == CHOOSE x \in to_remove : TRUE
         IN RemoveTemplates(RemoveTemplate(hn, tid), to_remove \ {tid})

\* clear_old_templates() with days_old = expiry_days
ClearOldTemplates(hn) ==
    LET cutoff == hn.now - ExpiryDays
        last(t) == IF t.last_match_timestamp # NoTime
                   THEN t.last_match_timestamp ELSE t.creation_timestamp
        to_remove == {tid \in DOMAIN hn.templates : last(hn.templates[tid]) < cutoff}
    IN [RemoveTemplates(hn, to_remove)
        EXCEPT !.returned = [HnNoReturn EXCEPT !.op = "clear_old_templates",
                                               !.count = Cardinality(to_remove)]]

\* the entries of a blob handed to a store in use: a template never matched
\* and made on day 0, and one last matched 200 days before day 0
StoredTimestamps == {<<NoTime, 0>>, <<-200, -300>>}
StoreEntry(tid, stamps) ==
    [ImportEntry(tid, [post_pass_losses |-> 5, false_vetoes |-> 0], NoTime)
     EXCEPT !.last_match = stamps[1], !.creation_timestamp = stamps[2]]
StorePayloads ==
    LET Entries == {StoreEntry(tid, stamps) : tid \in ImportedIds, stamps \in StoredTimestamps}
    IN {<<e>> : e \in Entries}
       \cup {pair \in {<<e1, e2>> : e1 \in Entries, e2 \in Entries} :
                 pair[1].tid # pair[2].tid}

\* import_templates on a store in use
HnImportBlob ==
    /\ hardNegatives.calls < MaxHnCalls
    /\ \E payload \in StorePayloads, max_templates \in MaxTemplatesArgs :
         hardNegatives' =
           [ImportLoop(hardNegatives, payload, max_templates, 0)
            EXCEPT !.calls = @ + 1]
    /\ UNCHANGED <<today, rlVars, costOptimizer, calibrator, patternMemory,
                   feedbackLoop, simulator, wilson>>

\* remove_template(template_id)
HnRemoveTemplate ==
    /\ hardNegatives.calls < MaxHnCalls
    /\ \E template_id \in ImportedIds :
         hardNegatives' =
           [RemoveTemplate(hardNegatives, template_id)
            EXCEPT !.calls = @ + 1,
                   !.returned = [HnNoReturn EXCEPT !.op = "remove_template",
                                                   !.template = template_id]]
    /\ UNCHANGED <<today, rlVars, costOptimizer, calibrator, patternMemory,
                   feedbackLoop, simulator, wilson>>

HnClearOldTemplates ==
    /\ hardNegatives.calls < MaxHnCalls
    /\ hardNegatives' = [ClearOldTemplates(hardNegatives) EXCEPT !.calls = @ + 1]
    /\ UNCHANGED <<today, rlVars, costOptimizer, calibrator, patternMemory,
                   feedbackLoop, simulator, wilson>>

\* ---- src/learning/feedback_loop.py: FeedbackLoop ---------------------------

HighConfidenceLoss == 90  \* _generate_learning_signal
Components == {"calibrator", "hard_negatives", "pattern_memory"}

NoRecord ==
    [result |-> "None", pnl_pts |-> 0, gpt_confidence |-> 0, timestamp |-> 0,
     atr_5m |-> "None", confluence_factors |-> "None", signature |-> "None",
     setup_type |-> "None", session |-> "None", market_regime |-> "None",
     bins |-> "None", calibration_event |-> NoEvent]

\* FeedbackLoop.__init__.  The components handed to set_learning_components
\* are the variables calibrator, hardNegatives and patternMemory.  The
\* fields attempted and raised are history of the last call: the components
\* whose update was called and those whose update raised (the handlers print
\* one line each).
FeedbackLoopNew ==
    [trade_records |-> <<>>, learning_signals |-> <<>>,
     components_set |-> FALSE,
     returned |-> NoRecord, attempted |-> {}, raised |-> {}, op |-> "none"]

\* a TradeResult of the simulator, as the feedback loop reads it
FbTradeResult(pnl, exit_reason, exit_time) ==
    [pnl_points |-> pnl, exit_reason |-> [value |-> exit_reason],
     exit_time |-> exit_time]

\* _categorize_outcome; pnl_points in tenths of a point
CategorizeOutcome(trade_result) ==
    IF trade_result.exit_reason.value = "timeout" THEN "timeout"
    ELSE IF trade_result.pnl_points > 1 THEN "win"
    ELSE IF trade_result.pnl_points < -1 THEN "loss"
    ELSE "breakeven"

\* the TradeRecord built by record_trade_completion: the fields the learning
\* components read.  It has pnl_pts and no pnl_points.
TradeRecord(trade_result, candidate, gpt_decision) ==
    [result |-> CategorizeOutcome(trade_result),
     pnl_pts |-> trade_result.pnl_points,
     gpt_confidence |-> gpt_decision.confidence,
     timestamp |-> trade_result.exit_time,
     atr_5m |-> candidate.atr_5m,
     confluence_factors |-> candidate.confidence_factors,
     signature |-> candidate.signature,
     setup_type |-> candidate.setup_type,
     session |-> candidate.session_label,
     market_regime |-> "mixed",
     bins |-> candidate.bins,
     calibration_event |-> NoEvent]

\* variant: one try block around the three updates, the first exception
\* ends them
TriggerLearningUpdates_OneTry(fb, cal, hn, pm, trade_record, date, binning_raises) ==
    LET c == RecordTradeResult(cal, trade_record, date)
        wantsHn == trade_record.result = "loss"
        h == IF wantsHn /\ ~c.raised
             THEN ProcessLoss(hn, trade_record, binning_raises)
             ELSE [hn |-> hn, raised |-> FALSE]
        p == IF ~c.raised /\ ~h.raised
             THEN UpdatePatternStats(pm, trade_record)
             ELSE [pm |-> pm, raised |-> FALSE]
    IN IF ~fb.components_set
       THEN [cal |-> cal, hn |-> hn, pm |-> pm,
             event |-> NoEvent, attempted |-> {}, raised |-> {}]
       ELSE [cal |-> c.cal, hn |-> h.hn, pm |-> p.pm, event |-> c.event,
             attempted |-> {"calibrator"}
                 \cup (IF wantsHn /\ ~c.raised THEN {"hard_negatives"} ELSE {})
                 \cup (IF ~c.raised /\ ~h.raised THEN {"pattern_memory"} ELSE {}),
             raised |-> (IF c.raised THEN {"calibrator"} ELSE {})
                 \cup (IF h.raised THEN {"hard_negatives"} ELSE {})
                 \cup (IF p.raised THEN {"pattern_memory"} ELSE {})]

\* _trigger_learning_updates: each update in a try block of its own
TriggerLearningUpdates(fb, cal, hn, pm, trade_record, date, binning_raises) ==
    LET c == RecordTradeResult(cal, trade_record, date)
        wantsHn == trade_record.result = "loss"
        h == IF wantsHn
             THEN ProcessLoss(hn, trade_record, binning_raises)
             ELSE [hn |-> hn, raised |-> FALSE]
        p == UpdatePatternStats(pm, trade_record)
    IN IF ~fb.components_set
       THEN [cal |-> cal, hn |-> hn, pm |-> pm,
             event |-> NoEvent, attempted |-> {}, raised |-> {}]
       ELSE [cal |-> c.cal, hn |-> h.hn, pm |-> p.pm, event |-> c.event,
             attempted |-> {"calibrator", "pattern_memory"}
                 \cup (IF wantsHn THEN {"hard_negatives"} ELSE {}),
             raised |-> (IF c.raised THEN {"calibrator"} ELSE {})
                 \cup (IF h.raised THEN {"hard_negatives"} ELSE {})
                 \cup (IF p.raised THEN {"pattern_memory"} ELSE {})]

\* _generate_learning_signal: the signals that depend on result and confidence
GenerateLearningSignal(trade_record) ==
    [signal_type |->
        (IF trade_record.result = "loss"
            /\ trade_record.gpt_confidence >= HighConfidenceLoss
         THEN {"high_confidence_loss"} ELSE {})
        \cup (IF trade_record.result = "timeout" THEN {"timeout_pattern"} ELSE {}),
     severity |->
        IF trade_record.result = "loss"
           /\ trade_record.gpt_confidence >= HighConfidenceLoss
        THEN "warning" ELSE "info"]

\* the trades handed to record_trade_completion: pnl_points (in tenths) and
\* exit_reason of the simulator's result, the decision's confidence and the
\* candidate's fields
FbOutcomes ==
    {<<10, "take_profit">>, <<-10, "stop_loss">>, <<0, "breakeven">>, <<5, "timeout">>}
FbConfidences == {85, 95}
FbAtrs == {"normal", "None"}
FbConfluences == {"list"}

\* set_learning_components(calibrator, hard_negatives, pattern_memory)
SetLearningComponents ==
    /\ ~feedbackLoop.components_set
    /\ feedbackLoop' = [feedbackLoop EXCEPT !.components_set = TRUE,
                                            !.op = "set_learning_components"]
    /\ UNCHANGED <<today, rlVars, costOptimizer, calibrator, patternMemory,
                   hardNegatives, simulator, wilson>>

\* record_trade_completion(trade_result, candidate_info, gpt_decision,
\* market_context).  The trade has just exited: its exit_time is the present
\* of both clocks.
RecordTradeCompletion ==
    /\ Len(feedbackLoop.trade_records) < MaxFbTrades
    /\ \E outcome \in FbOutcomes,
          confidence \in FbConfidences, atr \in FbAtrs,
          factors \in FbConfluences, id \in FingerprintIds,
          binning_raises \in BOOLEAN :
         LET trade_result == FbTradeResult(outcome[1], outcome[2],
                                           patternMemory.now)
             candidate == [atr_5m |-> atr, confidence_factors |-> factors,
                           signature |-> id, setup_type |-> "orb",
                           session_label |-> "am", bins |-> "b0"]
             rec == TradeRecord(trade_result, candidate,
                                [confidence |-> confidence])
             u == TriggerLearningUpdates(feedbackLoop, calibrator,
                                         hardNegatives, patternMemory, rec,
                                         today, binning_raises)
             stored == [rec EXCEPT !.calibration_event = u.event]
         IN /\ calibrator' = u.cal
            /\ patternMemory' = u.pm
            /\ hardNegatives' = u.hn
            /\ feedbackLoop' =
                 [feedbackLoop EXCEPT
                    !.trade_records = Append(@, stored),
                    !.learning_signals = Append(@, GenerateLearningSignal(stored)),
                    !.returned = stored,
                    !.attempted = u.attempted,
                    !.raised = u.raised,
                    !.op = "record_trade_completion"]
    /\ UNCHANGED <<today, rlVars, costOptimizer, simulator, wilson>>

\* ---- src/simulation/realistic_sim.py: RealisticSimulator -------------------
\* Prices, points and dollars are in ten-thousandths, so that half a tick,
\* the widened slippage and the commission in points are integers; the
\* rounding of floating point is not modelled.  Times are minutes after
\* entry_time, the recorded durations are seconds.

NoPrice == -1
EntryTime == 0
SecondsPerMinute == 60
CommissionPerTrade == 6200      \* 0.62 USD
BaseSlippageTicksTenths == 5    \* base_slippage_ticks = 0.5
WideSpread == 20000             \* 2.0 points
MaxBars == 2
MaxCandidates == 2

TradeDirections == {"long", "short"}
ExitReasons == {"take_profit", "stop_loss", "breakeven", "trailing_stop",
                "timeout", "manual"}
OhlcColumns == {"Open", "High", "Low", "Close"}

\* config['risk'] and config['market']: the configuration of the worked
\* example of the simulator, and one with a quarter-point tick, a larger
\* contract and a breakeven threshold beyond the target
ExampleConfig ==
    [tp |-> 10000, sl |-> 12500, move_to_be_at |-> 5000, trail_after |-> 7500,
     trail_distance |-> 5000, timeout_minutes |-> 2, tick_size |-> 5000,
     contract_size |-> 5]
QuarterTickConfig ==
    [tp |-> 10000, sl |-> 12500, move_to_be_at |-> 15000, trail_after |-> 20000,
     trail_distance |-> 5000, timeout_minutes |-> 1, tick_size |-> 2500,
     contract_size |-> 50]
SimConfigs == {ExampleConfig, QuarterTickConfig}

NoBar == [Open |-> NoPrice, High |-> NoPrice, Low |-> NoPrice, Close |-> NoPrice]
NoBrackets == [tp |-> NoPrice, initial_sl |-> NoPrice, be_level |-> NoPrice,
               trail_start_level |-> NoPrice]
NoTradeState ==
    [entry_price |-> NoPrice, current_sl |-> NoPrice, current_tp |-> NoPrice,
     be_moved |-> FALSE, trail_active |-> FALSE, mae |-> 0, mfe |-> 0,
     time_to_be |-> NoTime, time_to_target |-> NoTime, entry_time |-> EntryTime]
NoTradeResult ==
    [entry_price |-> NoPrice, exit_price |-> NoPrice, entry_time |-> NoTime,
     exit_time |-> NoTime, direction |-> "None", exit_reason |-> "None",
     pnl_points |-> 0, pnl_dollars |-> 0, mae |-> 0, mfe |-> 0,
     time_to_target_seconds |-> NoTime, time_to_be_seconds |-> NoTime,
     commission_paid |-> 0, slippage_points |-> 0, gross_pnl_points |-> 0,
     net_pnl_points |-> 0]
NoBarData == [columns |-> OhlcColumns, first_minute |-> 0, bars |-> <<>>]

\* __init__, and the caller's loop before its first candidate.  pc is the
\* position of simulate_trade ("idle" outside a call), i the index of the
\* next bar of the loop, exit_price the price handed to _create_trade_result,
\* created the number of TradeResults the call has made, idx the number of
\* candidates the caller's loop has gone through.
SimulatorWith(config) ==
    [config |-> config, pc |-> "idle", entry_price |-> NoPrice,
     direction |-> "None", bar_data |-> NoBarData, brackets |-> NoBrackets,
     trade_state |-> NoTradeState, i |-> 0, exit_price |-> NoPrice,
     result |-> NoTradeResult, exception |-> "None", created |-> 0,
     idx |-> 0, loop |-> "running"]
RealisticSimulatorNew == SimulatorWith(ExampleConfig)

BaseSlippage(config) == (BaseSlippageTicksTenths * config.tick_size) \div 10

\* _apply_entry_slippage; first_bar is NoBar for an empty frame
ApplyEntrySlippage_None(config, entry_price, direction, first_bar) ==
    entry_price
ApplyEntrySlippage(config, entry_price, direction, first_bar) ==
    LET base == BaseSlippage(config)
        base_slippage ==
            IF first_bar # NoBar /\ first_bar.High - first_bar.Low > WideSpread
            THEN (base * 3) \div 2
            ELSE base
    IN  IF direction = "long" THEN entry_price + base_slippage
                              ELSE entry_price - base_slippage

\* _calculate_brackets
CalculateBrackets(config, fill_price, direction) ==
    IF direction = "long"
    THEN [tp |-> fill_price + config.tp,
          initial_sl |-> fill_price - config.sl,
          be_level |-> fill_price + config.move_to_be_at,
          trail_start_level |-> fill_price + config.trail_after]
    ELSE [tp |-> fill_price - config.tp,
          initial_sl |-> fill_price + config.sl,
          be_level |-> fill_price - config.move_to_be_at,
          trail_start_level |-> fill_price - config.trail_after]

\* _update_mae_mfe
UpdateMaeMfe(bar, trade_state, direction) ==
    LET entry_price == trade_state.entry_price
        current_mfe == IF direction = "long" THEN bar.High - entry_price
                                             ELSE entry_price - bar.Low
        current_mae == IF direction = "long" THEN entry_price - bar.Low
                                             ELSE bar.High - entry_price
    IN  [trade_state EXCEPT !.mfe = Max(trade_state.mfe, current_mfe),
                            !.mae = Max(trade_state.mae, current_mae)]

\* _check_breakeven: the trade state after it; be_moved tells its result
CheckBreakeven(config, bar, trade_state, direction) ==
    LET entry_price == trade_state.entry_price
        hit == IF direction = "long"
               THEN bar.High >= entry_price + config.move_to_be_at
               ELSE bar.Low <= entry_price - config.move_to_be_at
    IN  IF hit THEN [trade_state EXCEPT !.current_sl = entry_price,
                                        !.be_moved = TRUE]
               ELSE trade_state

\* _check_trailing_activation
CheckTrailingActivation(config, bar, trade_state, direction) ==
    LET entry_price == trade_state.entry_price
        hit == IF direction = "long"
               THEN bar.High >= entry_price + config.trail_after
               ELSE bar.Low <= entry_price - config.trail_after
    IN  IF hit THEN [trade_state EXCEPT !.trail_active = TRUE] ELSE trade_state

\* _update_trailing_stop
UpdateTrailingStop_NoRatchet(config, bar, trade_state, direction) ==
    IF direction = "long"
    THEN [trade_state EXCEPT !.current_sl = bar.High - config.trail_distance]
    ELSE [trade_state EXCEPT !.current_sl = bar.Low + config.trail_distance]
UpdateTrailingStop(config, bar, trade_state, direction) ==
    IF direction = "long"
    THEN [trade_state EXCEPT
            !.current_sl = Max(trade_state.current_sl,
                               bar.High - config.trail_distance)]
    ELSE [trade_state EXCEPT
            !.current_sl = Min(trade_state.current_sl,
                               bar.Low + config.trail_distance)]

IsStopHit(current_price, stop_price, direction) ==
    IF direction = "long" THEN current_price <= stop_price
                          ELSE current_price >= stop_price

IsTargetHit(current_price, target_price, direction) ==
    IF direction = "long" THEN current_price >= target_price
                          ELSE current_price <= target_price

\* the list prices of _simulate_intrabar_execution
IntrabarPrices(bar) ==
    LET o == bar.Open
        h == bar.High
        l == bar.Low
        c == bar.Close
    IN  <<o>> \o (IF h # o /\ l # o THEN (IF c > o THEN <<l, h>> ELSE <<h, l>>)
                  ELSE IF h # o THEN <<h>>
                  ELSE IF l # o THEN <<l>>
                  ELSE <<>>) \o <<c>>

NoExit == [exit |-> FALSE, exit_price |-> NoPrice, exit_reason |-> "None"]

\* variant: the move to breakeven is looked at before the trailing
StopExitReason_BreakevenFirst(trade_state) ==
    IF trade_state.be_moved THEN "breakeven"
    ELSE IF trade_state.trail_active THEN "trailing_stop"
    ELSE "stop_loss"

\* the exit_reason of an exit at the stop
StopExitReason(trade_state) ==
    IF trade_state.trail_active THEN "trailing_stop"
    ELSE IF trade_state.be_moved THEN "breakeven"
    ELSE "stop_loss"

\* the loop over prices of _simulate_intrabar_execution, from the k-th price
RECURSIVE WalkPrices(_, _, _, _)
WalkPrices(prices, k, trade_state, direction) ==
    IF k > Len(prices) THEN NoExit
    ELSE IF IsStopHit(prices[k], trade_state.current_sl, direction)
    THEN [exit |-> TRUE, exit_price |-> trade_state.current_sl,
          exit_reason |-> StopExitReason(trade_state)]
    ELSE IF IsTargetHit(prices[k], trade_state.current_tp, direction)
    THEN [exit |-> TRUE, exit_price |-> trade_state.current_tp,
          exit_reason |-> "take_profit"]
    ELSE WalkPrices(prices, k + 1, trade_state, direction)

SimulateIntrabarExecution(bar, trade_state, direction) ==
    WalkPrices(IntrabarPrices(bar), 1, trade_state, direction)

\* _is_timeout
IsTimeout_Late(config, entry_time, current_time) ==
    current_time - entry_time > config.timeout_minutes
IsTimeout(config, entry_time, current_time) ==
    current_time - entry_time >= config.timeout_minutes

\* _process_bar on a bar with all four prices: the trade state it leaves and
\* the exit it found
ProcessBar(config, bar, trade_state, direction, timestamp, entry_time) ==
    LET seconds == (timestamp - entry_time) * SecondsPerMinute
        s1 == UpdateMaeMfe(bar, trade_state, direction)
        s2 == IF ~s1.be_moved
              THEN LET b == CheckBreakeven(config, bar, s1, direction)
                   IN  IF b.be_moved THEN [b EXCEPT !.time_to_be = seconds]
                                     ELSE b
              ELSE s1
        s3 == IF ~s2.trail_active /\ s2.be_moved
              THEN CheckTrailingActivation(config, bar, s2, direction)
              ELSE s2
        s4 == IF s3.trail_active
              THEN UpdateTrailingStop(config, bar, s3, direction)
              ELSE s3
        x  == SimulateIntrabarExecution(bar, s4, direction)
        s5 == IF x.exit_reason = "take_profit" /\ s4.time_to_target = NoTime
              THEN [s4 EXCEPT !.time_to_target = seconds]
              ELSE s4
    IN  [trade_state |-> s5, exit |-> x.exit, exit_price |-> x.exit_price,
         exit_reason |-> x.exit_reason]

SlippedExits == {"stop_loss", "breakeven", "trailing_stop", "timeout"}

\* _create_trade_result
CreateTradeResult(config, trade_state, entry_time, exit_time, exit_price, exit_reason, direction) ==
    LET entry_price == trade_state.entry_price
        exit_slippage == IF exit_reason \in SlippedExits
                         THEN BaseSlippage(config) ELSE 0
        slipped_exit == IF direction = "long" THEN exit_price - exit_slippage
                                              ELSE exit_price + exit_slippage
        gross_pnl_points == IF direction = "long" THEN slipped_exit - entry_price
                                                  ELSE entry_price - slipped_exit
        total_slippage == BaseSlippage(config) + exit_slippage
        gross_pnl_dollars == gross_pnl_points * config.contract_size
        net_pnl_dollars == gross_pnl_dollars - CommissionPerTrade
        commission_points == CommissionPerTrade \div config.contract_size
    IN  [entry_price |-> entry_price, exit_price |-> slipped_exit,
         entry_time |-> entry_time, exit_time |-> exit_time,
         direction |-> direction, exit_reason |-> exit_reason,
         pnl_points |-> gross_pnl_points, pnl_dollars |-> net_pnl_dollars,
         mae |-> trade_state.mae, mfe |-> trade_state.mfe,
         time_to_target_seconds |-> trade_state.time_to_target,
         time_to_be_seconds |-> trade_state.time_to_be,
         commission_paid |-> CommissionPerTrade,
         slippage_points |-> total_slippage,
         gross_pnl_points |-> gross_pnl_points,
         net_pnl_points |-> gross_pnl_points - commission_points]

\* the timestamp of the i-th bar of a frame of one-minute bars
Timestamp(bar_data, i) == bar_data.first_minute + (i - 1)

\* the calls the model makes.  Prices are quarter points around the
\* requested entry price 5000.00; the levels of a long trade under
\* ExampleConfig are the stop 4999.00 (-4), the fill 5000.25 (1), the
\* breakeven level 5000.75 (3), the trailing start 5001.00 (4) and the
\* target 5001.25 (5).
RequestedEntry == 50000000
QuarterPoint == 2500
Bar(o, h, l, c) ==
    [Open |-> RequestedEntry + o * QuarterPoint,
     High |-> RequestedEntry + h * QuarterPoint,
     Low |-> RequestedEntry + l * QuarterPoint,
     Close |-> RequestedEntry + c * QuarterPoint]
\* the same bar seen from the other side of the requested entry price
Mirror(bar) ==
    [Open |-> 2 * RequestedEntry - bar.Open,
     High |-> 2 * RequestedEntry - bar.Low,
     Low |-> 2 * RequestedEntry - bar.High,
     Close |-> 2 * RequestedEntry - bar.Close]
QuietBar == Bar(2, 2, 2, 2)
RallyBar == Bar(0, 5, 0, 4)         \* opens at the request, high at the target
GapBar == Bar(4, 5, 4, 5)           \* opens above the trailing stop
SellOffBar == Bar(2, 2, -4, -4)     \* low at the initial stop
BreakevenBar == Bar(2, 3, 2, 3)     \* high at the breakeven level
DipBar == Bar(2, 2, 1, 1)           \* low at the fill
TrailBar == Bar(4, 4, 4, 4)         \* at the trailing start
WideBar == Bar(0, 5, -4, 4)         \* a spread of 2.25 points
CrossedBar == Bar(2, 1, 3, 2)       \* high below low
LongBars == {QuietBar, RallyBar, GapBar, SellOffBar, BreakevenBar, DipBar,
             TrailBar, WideBar, CrossedBar}
SimBars == LongBars \cup {Mirror(b) : b \in {RallyBar, GapBar, SellOffBar,
                                              BreakevenBar, TrailBar}}
FirstMinutes == {0, 1}
RECURSIVE BarSeqs(_)
BarSeqs(n) ==
    IF n = 0 THEN {<<>>}
    ELSE LET shorter == BarSeqs(n - 1)
         IN  shorter \cup {Append(s, b) : s \in {t \in shorter : Len(t) = n - 1},
                                          b \in SimBars}
\* frames of OHLC bars, the empty frame among them, and frames of one bar
\* that lack a column
BarFrames ==
    {[columns |-> OhlcColumns, first_minute |-> f, bars |-> s] :
        f \in FirstMinutes, s \in BarSeqs(MaxBars)}
    \cup {[columns |-> OhlcColumns \ {col}, first_minute |-> f,
           bars |-> <<QuietBar>>] :
            col \in {"High", "Close"}, f \in FirstMinutes}

\* simulate_trade up to its loop: the entry slippage reads High and Low of
\* the first bar
SimulateTradeEntry(sim, entry_price, direction, bar_data) ==
    LET called == [sim EXCEPT !.entry_price = entry_price,
                              !.direction = direction,
                              !.bar_data = bar_data,
                              !.brackets = NoBrackets,
                              !.trade_state = NoTradeState,
                              !.i = 0, !.exit_price = NoPrice,
                              !.result = NoTradeResult,
                              !.exception = "None", !.created = 0]
        first_bar == IF bar_data.bars = <<>> THEN NoBar ELSE bar_data.bars[1]
    IN  IF first_bar # NoBar /\ ~({"High", "Low"} \subseteq bar_data.columns)
        THEN [called EXCEPT !.pc = "raised", !.exception = "KeyError"]
        ELSE LET slipped_entry == ApplyEntrySlippage(sim.config, entry_price,
                                                     direction, first_bar)
                 brackets == CalculateBrackets(sim.config, slipped_entry,
                                               direction)
             IN  [called EXCEPT
                    !.pc = "loop", !.i = 1, !.brackets = brackets,
                    !.trade_state =
                        [NoTradeState EXCEPT
                            !.entry_price = slipped_entry,
                            !.current_sl = brackets.initial_sl,
                            !.current_tp = brackets.tp]]

Returned(sim, exit_time, exit_price, exit_reason) ==
    [sim EXCEPT !.pc = "returned", !.exit_price = exit_price,
                !.created = sim.created + 1,
                !.result = CreateTradeResult(sim.config, sim.trade_state,
                                             EntryTime, exit_time, exit_price,
                                             exit_reason, sim.direction)]

\* one pass of the loop of simulate_trade, on the bar sim.i
SimulateTradeLoop(sim) ==
    LET bar == sim.bar_data.bars[sim.i]
        timestamp == Timestamp(sim.bar_data, sim.i)
    IN  IF IsTimeout(sim.config, EntryTime, timestamp)
        THEN Returned(sim, timestamp,
                      IF "Close" \in sim.bar_data.columns
                      THEN bar.Close ELSE sim.trade_state.entry_price,
                      "timeout")
        ELSE IF sim.bar_data.columns # OhlcColumns
        THEN [sim EXCEPT !.pc = "raised", !.exception = "KeyError"]
        ELSE LET p == ProcessBar(sim.config, bar, sim.trade_state,
                                 sim.direction, timestamp, EntryTime)
                 s == [sim EXCEPT !.trade_state = p.trade_state]
             IN  IF p.exit
                 THEN Returned(s, timestamp, p.exit_price, p.exit_reason)
                 ELSE [s EXCEPT !.i = sim.i + 1]

\* simulate_trade after its loop
SimulateTradeClose(sim) ==
    IF sim.bar_data.bars = <<>>
    THEN [sim EXCEPT !.pc = "raised", !.exception = "IndexError"]
    ELSE IF "Close" \notin sim.bar_data.columns
    THEN [sim EXCEPT !.pc = "raised", !.exception = "KeyError"]
    ELSE Returned(sim, Timestamp(sim.bar_data, Len(sim.bar_data.bars)),
                  sim.bar_data.bars[Len(sim.bar_data.bars)].Close, "manual")

\* run_training_loop calls simulator.simulate_trade for its next candidate
SimulateTrade ==
    /\ simulator.loop = "running"
    /\ simulator.pc = "idle"
    /\ simulator.idx < MaxCandidates
    /\ \E direction \in TradeDirections, bar_data \in BarFrames :
         simulator' = SimulateTradeEntry(simulator, RequestedEntry, direction,
                                         bar_data)
    /\ UNCHANGED <<today, rlVars, costOptimizer, calibrator, patternMemory,
                   feedbackLoop, hardNegatives, wilson>>

SimulateTradeBar ==
    /\ simulator.pc = "loop"
    /\ simulator.i <= Len(simulator.bar_data.bars)
    /\ simulator' = SimulateTradeLoop(simulator)
    /\ UNCHANGED <<today, rlVars, costOptimizer, calibrator, patternMemory,
                   feedbackLoop, hardNegatives, wilson>>

SimulateTradeForceClose ==
    /\ simulator.pc = "loop"
    /\ simulator.i > Len(simulator.bar_data.bars)
    /\ simulator' = SimulateTradeClose(simulator)
    /\ UNCHANGED <<today, rlVars, costOptimizer, calibrator, patternMemory,
                   feedbackLoop, hardNegatives, wilson>>

\* run_training_loop: except Exception: logger.warning(...); continue
RunTrainingLoopSkip ==
    /\ simulator.pc = "raised"
    /\ simulator' = [simulator EXCEPT !.pc = "idle", !.idx = simulator.idx + 1]
    /\ UNCHANGED <<today, rlVars, costOptimizer, calibrator, patternMemory,
                   feedbackLoop, hardNegatives, wilson>>

\* run_training_loop after the try: trade.get and trade[...] on the
\* TradeResult raise out of the loop, which trainer_loop logs
RunTrainingLoopTrade ==
    /\ simulator.pc = "returned"
    /\ simulator.loop = "running"
    /\ simulator' = [simulator EXCEPT !.loop = "stopped",
                                      !.idx = simulator.idx + 1]
    /\ UNCHANGED <<today, rlVars, costOptimizer, calibrator, patternMemory,
                   feedbackLoop, hardNegatives, wilson>>

\* ---- _wilson_interval: src/learning/pattern_memory.py, hard_negatives.py ---
\* The interval is computed as the code computes it, one operation after the
\* other, each result rounded to the nearest representable number.  The
\* numbers of the model have four decimals (FixedOne is 1.0) where the
\* code's floats have fifty-three bits, so the model's rounding errors are
\* larger than the code's and fall on other inputs, but they arise in the
\* same operations.

FixedOne == 10000
ZScore == 19600               \* z = 1.96
IntSqrtMax == 10000
MaxWilsonTotal == 12

\* a / b rounded to the nearest integer, ties to even, for a >= 0 and b > 0
RoundDiv(a, b) ==
    LET q == a \div b
        r == a % b
    IN  IF 2 * r > b \/ (2 * r = b /\ q % 2 = 1) THEN q + 1 ELSE q

FMul(a, b) == RoundDiv(a * b, FixedOne)
FDiv(a, b) == RoundDiv(a * FixedOne, b)
\* x ** 0.5
FSqrt(a) ==
    LET v == a * FixedOne
        k == CHOOSE j \in 0..IntSqrtMax : j * j <= v /\ (j + 1) * (j + 1) > v
    IN  IF v - k * k > k THEN k + 1 ELSE k

\* _wilson_interval(wins, total) with z = 1.96
WilsonInterval(wins, total) ==
    IF total <= 0 THEN [lower |-> 0, upper |-> 0]
    ELSE LET n == total * FixedOne
             p == FDiv(wins * FixedOne, n)
             zz == FMul(ZScore, ZScore)
             denom == FixedOne + FDiv(zz, n)
             center == FDiv(p + FDiv(zz, 2 * n), denom)
             inner == FDiv(FMul(p, FixedOne - p), n) + FDiv(zz, 4 * total * n)
             margin == FDiv(FMul(ZScore, FSqrt(inner)), denom)
         IN  [lower |-> Max(0, center - margin),
              upper |-> Min(FixedOne, center + margin)]

WilsonModules == {"pattern_memory", "hard_negatives"}
WilsonNew == [module |-> "none", wins |-> 0, total |-> 0, lower |-> 0, upper |-> 0]

WilsonCalled(module, wins, total) ==
    LET r == WilsonInterval(wins, total)
    IN  [module |-> module, wins |-> wins, total |-> total,
         lower |-> r.lower, upper |-> r.upper]

\* PatternMemory._wilson_interval(wins, total)
PmWilsonInterval ==
    /\ wilson.module = "none"
    /\ \E total \in -1..MaxWilsonTotal, wins \in 0..MaxWilsonTotal :
         /\ wins <= Max(total, 0)
         /\ wilson' = WilsonCalled("pattern_memory", wins, total)
    /\ UNCHANGED <<today, rlVars, costOptimizer, calibrator, patternMemory,
                   feedbackLoop, hardNegatives, simulator>>

\* hard_negatives._wilson_interval(success, total)
HnWilsonInterval ==
    /\ wilson.module = "none"
    /\ \E total \in -1..MaxWilsonTotal, success \in 0..MaxWilsonTotal :
         /\ success <= Max(total, 0)
         /\ wilson' = WilsonCalled("hard_negatives", success, total)
    /\ UNCHANGED <<today, rlVars, costOptimizer, calibrator, patternMemory,
                   feedbackLoop, hardNegatives, simulator>>

\* ---- the system ------------------------------------------------------------

Init ==
    /\ RateLimiterInit
    /\ costOptimizer = CostOptimizerNew
    /\ calibrator = ConfidenceCalibratorNew
    /\ patternMemory = PatternMemoryNew
    /\ feedbackLoop = FeedbackLoopNew
    /\ hardNegatives = HardNegativesNew
    /\ simulator = RealisticSimulatorNew
    /\ wilson = WilsonNew

WorkerNext ==
    \/ WorkerInit
    \/ WorkerLoop
    \/ WorkerGet
    \/ WorkerCheck
    \/ WorkerCallOracle
    \/ WorkerRecordSuccess
    \/ WorkerRecordFailure
    \/ WorkerMoveToCompleted

ClientContinue ==
    \/ GetRequestStatusDrain
    \/ GetRequestStatusPutBack
    \/ ClientReturn
    \/ (clientPc = "gss_perf" /\ GetPerformanceStats)

AdminContinue ==
    ForceAppend

Next ==
    \/ AdvanceDay
    \/ SubmitRequest
    \/ SetPauseState
    \/ GetUsageCounters
    \/ GetRequestStatus
    \/ GetRequestStatusDrain
    \/ GetRequestStatusPutBack
    \/ GetPerformanceStats
    \/ GetSystemStatus
    \/ ClientReturn
    \/ Shutdown
    \/ WorkerInit
    \/ WorkerLoop
    \/ WorkerGet
    \/ WorkerCheck
    \/ WorkerCallOracle
    \/ WorkerRecordSuccess
    \/ WorkerRecordFailure
    \/ WorkerMoveToCompleted
    \/ ForceProcessQueue
    \/ ForceAppend

Spec == Init /\ [][Next]_vars

\* The worker thread and a thread inside a public call keep running: the
\* scheduler gives every runnable thread its turn.  No fairness is assumed
\* of the callers starting new calls, of the clock or of the admin.
FairSpec ==
    Spec /\ WF_vars(WorkerNext) /\ WF_vars(ClientContinue) /\ WF_vars(AdminContinue)

CostNext ==
    \/ AdvanceDay
    \/ ResetSession
    \/ NoteTradeOutcome
    \/ ShouldSendToGpt
    \/ RecordGptCall
    \/ CostGetStatus

\* a caller that keeps submitting, before and after shutdown()
HistNext ==
    \/ SubmitRequestUpTo(MaxHistoryRequests)
    \/ Shutdown

HistSpec == Init /\ [][HistNext]_vars

\* the cost optimizer alone, driven by its caller and the clock
SpecCost == Init /\ [][CostNext]_vars

CalNext ==
    \/ (calibrator.tape = <<>> /\ AdvanceDay)
    \/ CalRecordTradeResult
    \/ ForceAdjustment
    \/ GetCurrentConfidenceThreshold

\* the calibrator alone: its caller first records the trades of one of the
\* tapes on the date 0, then makes MaxCalCalls calls as the clock advances
CalInit ==
    /\ RateLimiterInit
    /\ costOptimizer = CostOptimizerNew
    /\ \E tape \in Tapes :
         calibrator = [ConfidenceCalibratorNew EXCEPT !.tape = tape]
    /\ patternMemory = PatternMemoryNew
    /\ feedbackLoop = FeedbackLoopNew
    /\ hardNegatives = HardNegativesNew
    /\ simulator = RealisticSimulatorNew
    /\ wilson = WilsonNew

SpecCal == CalInit /\ [][CalNext]_vars

HnNext ==
    \/ HnImportTemplates
    \/ HnProcessLoss
    \/ HnCheckCandidate
    \/ HnRecordOutcomeFeedback
    \/ HnTick

\* the hard negatives alone, driven by their callers and their clock
SpecHn == Init /\ [][HnNext]_vars

\* the template store under losses, imports, removals and cleanups
HnStoreNext ==
    \/ HnProcessLoss
    \/ HnImportBlob
    \/ HnRemoveTemplate
    \/ HnClearOldTemplates
    \/ HnTick

SpecHnStore == Init /\ [][HnStoreNext]_vars

PmNext ==
    \/ ImportPatterns
    \/ PmUpdatePatternStats
    \/ PmCheckStatusChanges
    \/ PmTick

\* the pattern memory alone, driven by its callers and its clock
SpecPm == Init /\ [][PmNext]_vars

\* the store of the pattern memory under updates, imports and cleanups
PmStoreNext ==
    \/ PmUpdateTrade
    \/ PmImportPatterns
    \/ PmImportEntry
    \/ PmCleanupOldPatterns
    \/ PmTick

SpecPmStore == Init /\ [][PmStoreNext]_vars

\* a fresh pattern memory under a streak of updates
PmStreakNext ==
    \/ PmStreakTrade
    \/ PmTick

SpecPmStreak == Init /\ [][PmStreakNext]_vars

FbNext ==
    \/ AdvanceDay
    \/ SetLearningComponents
    \/ RecordTradeCompletion

\* the feedback loop with the calibrator and the pattern memory it is given
SpecFb == Init /\ [][FbNext]_vars

SimNext ==
    \/ SimulateTrade
    \/ SimulateTradeBar
    \/ SimulateTradeForceClose
    \/ RunTrainingLoopSkip
    \/ RunTrainingLoopTrade

\* the simulator alone, constructed with one of the configurations and
\* called by the training loop
SimInit ==
    /\ RateLimiterInit
    /\ costOptimizer = CostOptimizerNew
    /\ calibrator = ConfidenceCalibratorNew
    /\ patternMemory = PatternMemoryNew
    /\ feedbackLoop = FeedbackLoopNew
    /\ hardNegatives = HardNegativesNew
    /\ \E config \in SimConfigs : simulator = SimulatorWith(config)
    /\ wilson = WilsonNew

SpecSim == SimInit /\ [][SimNext]_vars

WilsonNext ==
    \/ PmWilsonInterval
    \/ HnWilsonInterval

\* the Wilson interval alone: one call, with any pair of counts
SpecWilson == Init /\ [][WilsonNext]_vars

\* ---- properties ---------------------------------------------------------

Ids == 1..Len(requests)
Status(r) == requests[r].status

\* C1: the used-today counter never exceeds the daily cap, whatever the
\* interleaving of submissions, worker steps, pause changes and lazy resets.
C1_BudgetCap == calls_used_today <= DailyCap

\* C1 witness: the cap is reached and the worker's re-check has turned away
\* a request that had been queued while budget was left
C1_Witness ==
    /\ calls_used_today = DailyCap
    /\ \E r \in accepted : Status(r) = "REJECTED" /\ requests[r].error = "daily_cap"

\* C2: at most one request is PROCESSING, it is the active request, and an
\* oracle call in flight is the call for that request.
C2_Serialized ==
    /\ Cardinality({r \in Ids : Status(r) = "PROCESSING"}) <= 1
    /\ \A r \in Ids : Status(r) = "PROCESSING" => active_request = r
    /\ workerPc \in {"call", "record_success", "record_failure"}
          => /\ active_request = workerReq
             /\ Status(workerReq) = "PROCESSING"

\* C2 witness: an oracle call is in flight while another request waits
C2_Witness ==
    /\ workerPc = "record_success"
    /\ active_request # None
    /\ Status(active_request) = "PROCESSING"
    /\ request_queue # <<>>

\* C3: requests reach the oracle in submission order (ids are submission
\* sequence numbers), whatever status queries are interleaved.
C3_Fifo ==
    \A i, j \in 1..Len(oracleOrder) : i < j => oracleOrder[i] < oracleOrder[j]

\* C4: whenever a public call holds the limiter's lock it eventually
\* releases it.
C4_LockReleased == (lock = "client") ~> (lock = "free")

C6_CallsMadeWithinCap == callsMadeToday <= DailyCap

\* C7: after shutdown is requested every request still queued is eventually
\* rejected with reason shutdown; none stays PENDING forever.  The worker is
\* the only thread that rejects for shutdown, so the requirement on its
\* final state is: once it has left its loop, no request is PENDING.
C7_ShutdownDrains ==
    workerPc = "exited" => \A r \in Ids : Status(r) # "PENDING"

\* C8: a status only moves PENDING -> PROCESSING -> COMPLETED or FAILED, or
\* PENDING -> REJECTED; a terminal status never changes; requests are never
\* dropped.
C8_StateMachine ==
    [][ /\ Len(requests') >= Len(requests)
        /\ \A r \in Ids :
              requests'[r].status # requests[r].status =>
                 <<requests[r].status, requests'[r].status>> \in
                    { <<"PENDING", "PROCESSING">>, <<"PENDING", "REJECTED">>,
                      <<"PROCESSING", "COMPLETED">>, <<"PROCESSING", "FAILED">> }
      ]_vars

\* C8 witness: one request went through the oracle and another was rejected
\* by force_process_queue
C8_Witness ==
    /\ \E r \in Ids : Status(r) \in {"COMPLETED", "FAILED"}
    /\ \E r \in Ids : Status(r) = "REJECTED" /\ requests[r].error = "force_cleared"

\* C9: while the limiter is paused a new submission is rejected, the request
\* being processed keeps its course, and a queued request stays PENDING: it
\* is not rejected because of the pause.
C9_PauseEnforcement ==
    [][ /\ (Len(requests') = Len(requests) + 1 /\ is_paused')
              => requests'[Len(requests')].status = "REJECTED"
        /\ \A r \in Ids :
              /\ (is_paused /\ Status(r) = "PROCESSING")
                    => requests'[r].status \in {"PROCESSING", "COMPLETED", "FAILED"}
              /\ (is_paused /\ Status(r) = "PENDING" /\ requests'[r].status = "REJECTED")
                    => requests'[r].error # "paused"
      ]_vars

\* C10: when the oracle call raises, the request becomes FAILED with an error
\* recorded and the used-today counter untouched; the worker then appends it
\* to the history, clears active_request and returns to its loop; no worker
\* step changes the counter by more than one.
C10_OracleFailure ==
    [][ /\ (workerPc = "record_failure" /\ workerPc' # "record_failure") =>
              /\ requests'[workerReq].status = "FAILED"
              /\ requests'[workerReq].error # "none"
              /\ calls_used_today' = calls_used_today
              /\ workerPc' = "move"
        /\ (workerPc = "move" /\ workerPc' # "move") =>
              /\ active_request' = None
              /\ workerReq \in Range(completed_requests')
              /\ requests'[workerReq].status = requests[workerReq].status
              /\ calls_used_today' = calls_used_today
              /\ workerPc' = "loop"
        /\ workerPc' # workerPc =>
              /\ calls_used_today' - calls_used_today \in {0, 1}
      ]_vars

\* C10 witness: a request has FAILED and the worker is processing a later
\* call, the counter still below the number of calls made
C10_Witness ==
    /\ Len(oracleOrder) >= 2
    /\ Status(oracleOrder[1]) = "FAILED"
    /\ active_request = oracleOrder[2]
    /\ Status(oracleOrder[2]) = "PROCESSING"
    /\ calls_used_today = 0

\* ---- properties of the cost optimizer ----------------------------------

\* a call of the cost optimizer that applied the daily reset
CostResetStep == costOptimizer'.last_reset_date # costOptimizer.last_reset_date

\* a call of should_send_to_gpt
ShouldSendStep ==
    /\ today' = today
    /\ costOptimizer'.returned.op = "should_send_to_gpt"

\* C11: on a date change the used-today counter restarts from 0, and the
\* reset lifts a pause if and only if its reason was daily_cap_exceeded: a
\* pause set for another reason is still in force after the call that
\* applied the reset.
C11_DailyReset ==
    [][CostResetStep =>
         /\ costOptimizer'.used_today = Len(costOptimizer'.recent_gpt_passes)
         /\ (costOptimizer.paused
               /\ costOptimizer.paused_reason # "daily_cap_exceeded")
            => /\ costOptimizer'.paused
               /\ costOptimizer'.paused_reason = costOptimizer.paused_reason
         /\ (costOptimizer.paused
               /\ costOptimizer.paused_reason = "daily_cap_exceeded")
            => ~costOptimizer'.paused]_vars

\* C12 as stated: a should_send_to_gpt check made while not paused and under
\* the cap, with at least N recorded passes and session losses at the
\* threshold, pauses with the emergency reason and refuses; with fewer
\* passes or fewer losses it does not pause.
C12_EmergencyPauseAsStated ==
    [][(ShouldSendStep /\ ~costOptimizer.paused
          /\ costOptimizer.used_today < CostDailyCap) =>
         IF Len(costOptimizer.recent_gpt_passes) >= TriggerRecentGptPasses
            /\ costOptimizer.session_losses >= TriggerSessionLosses
         THEN /\ costOptimizer'.paused
              /\ costOptimizer'.paused_reason =
                    "emergency_pause_recent_passes_and_losses"
              /\ costOptimizer'.returned.allow = FALSE
         ELSE ~costOptimizer'.paused]_vars

\* C12: a should_send_to_gpt check that, once its daily reset has been
\* applied (which empties the list of recorded passes on a new date), finds
\* the optimizer not paused and under its cap pauses with the emergency
\* reason and refuses with emergency_pause exactly when at least
\* TriggerRecentGptPasses passes are recorded and the session losses are at
\* least TriggerSessionLosses; otherwise it leaves the optimizer unpaused.
C12_EmergencyPause ==
    [][LET co == MaybeResetDay(costOptimizer)
       IN (ShouldSendStep /\ ~co.paused /\ co.used_today < CostDailyCap) =>
            IF Len(co.recent_gpt_passes) >= TriggerRecentGptPasses
               /\ co.session_losses >= TriggerSessionLosses
            THEN /\ costOptimizer'.paused
                 /\ costOptimizer'.paused_reason =
                       "emergency_pause_recent_passes_and_losses"
                 /\ costOptimizer'.returned.allow = FALSE
                 /\ costOptimizer'.returned.text = "emergency_pause"
            ELSE ~costOptimizer'.paused]_vars

\* C12 witness: the emergency pause has fired under the cap
C12_Witness ==
    /\ costOptimizer.returned.op = "should_send_to_gpt"
    /\ costOptimizer.returned.text = "emergency_pause"
    /\ costOptimizer.paused
    /\ costOptimizer.used_today < CostDailyCap
    /\ Len(costOptimizer.recent_gpt_passes) = TriggerRecentGptPasses
    /\ costOptimizer.session_losses = TriggerSessionLosses

\* ---- properties of the rate limiter's history ---------------------------

\* C13: the list of completed and rejected requests never holds more than
\* HistoryLimit entries.
C13_HistoryBounded == Len(completed_requests) <= HistoryLimit

\* ---- properties of the confidence calibrator ---------------------------

ForceStep ==
    /\ calibrator'.returned.op = "force_adjustment"
    /\ calibrator'.calls = calibrator.calls + 1

RecordStep ==
    /\ calibrator'.returned.op = "record_trade_result"
    /\ calibrator'.calls = calibrator.calls + 1 \/ calibrator'.tape # calibrator.tape

GetterStep ==
    /\ calibrator'.returned.op = "get_current_confidence_threshold"
    /\ calibrator'.calls = calibrator.calls + 1

LastEvent(cal) == cal.calibration_history[Len(cal.calibration_history)]

\* C16: the floor stays within [FloorMin, FloorMax] whatever calls are made;
\* force_adjustment with a value outside the range returns False and leaves
\* the floor and the calibration history as they were, and with a value
\* inside it sets the floor and appends an event with reason
\* manual_override.
C16_FloorBounds ==
    /\ [](FloorMin <= calibrator.current_floor
            /\ calibrator.current_floor <= FloorMax)
    /\ [][ForceStep =>
            LET new_floor == calibrator'.returned.value
            IN IF new_floor < FloorMin \/ new_floor > FloorMax
               THEN /\ ~calibrator'.returned.ok
                    /\ calibrator'.current_floor = calibrator.current_floor
                    /\ calibrator'.calibration_history =
                          calibrator.calibration_history
               ELSE /\ calibrator'.returned.ok
                    /\ calibrator'.current_floor = new_floor
                    /\ calibrator'.calibration_history # <<>>
                    /\ LastEvent(calibrator') =
                          [trigger_reason |-> "manual_override",
                           old_floor |-> calibrator.current_floor,
                           new_floor |-> new_floor]
                    /\ Len(calibrator'.calibration_history) =
                          Min(CalibrationHistoryMaxLen,
                              Len(calibrator.calibration_history) + 1)]_vars

\* C16 witness: with the floor at its maximum a request above the range has
\* been refused
C16_Witness ==
    /\ calibrator.returned.op = "force_adjustment"
    /\ ~calibrator.returned.ok
    /\ calibrator.returned.value > FloorMax
    /\ calibrator.current_floor = FloorMax
    /\ calibrator.calibration_history # <<>>
    /\ LastEvent(calibrator).trigger_reason = "manual_override"

\* the calibration rule applied to the floor before, given the history after
\* the call
RuleHolds(before) ==
    LET history == calibrator'.trade_history
        n == Len(history)
        wins == Cardinality({i \in 1..n : i > n - 20 /\ history[i] = "win"})
        after == calibrator'.current_floor
        event == calibrator'.returned.event
    IN /\ n < 20 => after = before /\ event = NoEvent
       /\ n >= 20 =>
            /\ 5 * wins < 78 => after = Min(92, before + 2)
            /\ 5 * wins >= 85 => after = Max(82, before - 2)
            /\ (5 * wins >= 78 /\ 5 * wins < 85) => after = before
            /\ event # NoEvent <=> after # before
            /\ event # NoEvent =>
                 event.old_floor = before /\ event.new_floor = after

\* C17 as stated: the rule relates the floor after a record_trade_result
\* call to the floor before the call.
C17_CalibrationRuleAsStated ==
    [][RecordStep => RuleHolds(calibrator.current_floor)]_vars

\* C17: record_trade_result first applies the daily reset (on a timestamp of
\* a later date the floor returns to the base value); relative to the floor
\* after that reset, a call that leaves fewer than 20 trades in the history
\* keeps the floor and returns no event, and one that leaves at least 20
\* raises the floor by 2 capped at 92 when the win rate of the last 20 is
\* below 78%, lowers it by 2 not below 82 when it is at least 85%, and
\* keeps it otherwise; an event is returned exactly when the rule changed
\* the floor.
C17_CalibrationRule ==
    [][RecordStep =>
         RuleHolds(IF calibrator'.last_reset_date # calibrator.last_reset_date
                   THEN BaseConfidenceMin
                   ELSE calibrator.current_floor)]_vars

\* C17 witness: the 20th trade made the history 14 wins and 6 losses and
\* the floor went from the base value to 87
C17_Witness ==
    /\ calibrator.returned.op = "record_trade_result"
    /\ Len(calibrator.trade_history) = 20
    /\ Cardinality({i \in 1..20 : calibrator.trade_history[i] = "win"}) = 14
    /\ calibrator.returned.event =
          [trigger_reason |-> "win_rate_low",
           old_floor |-> BaseConfidenceMin, new_floor |-> 87]
    /\ calibrator.current_floor = 87

\* C18: once the date has changed, the threshold reported by
\* get_current_confidence_threshold is the base value as long as the floor
\* has not been assigned on the new date.
C18_ThresholdOnNewDay ==
    [][(GetterStep /\ today > calibrator.floor_set_on) =>
         calibrator'.returned.value = BaseConfidenceMin]_vars

\* ---- properties of the pattern memory ----------------------------------

\* a call that ran the status check: update_pattern_stats or the check itself
StatusCheckStep ==
    /\ patternMemory'.calls = patternMemory.calls + 1
    /\ patternMemory'.op \in {"update_pattern_stats", "_check_status_changes"}

UpdateStep ==
    /\ patternMemory'.calls = patternMemory.calls + 1
    /\ patternMemory'.op = "update_pattern_stats"

\* the status and the cooldown the check found: those before the call, or
\* those of a fingerprint the call created
StatusBefore(id) ==
    IF Known(patternMemory, id) THEN patternMemory.fingerprints[id].status
    ELSE "active"

InCooldownBefore(id) ==
    /\ Known(patternMemory, id)
    /\ InCooldown(patternMemory.fingerprints[id], patternMemory.now)

\* the promotion conditions of C19 on the fingerprint after the call, the
\* last trade being within 7 days in the sense given
GoldConditions(id, withinSevenDays) ==
    LET fp == patternMemory'.fingerprints[id]
    IN /\ fp.total_samples >= 30
       /\ fp.wr_lo95 >= 82
       /\ withinSevenDays
       /\ fp.ew_expectancy >= 50
       /\ ~InCooldownBefore(id)

PromotionRule(id, withinSevenDays) ==
    LET fp == patternMemory'.fingerprints[id]
    IN /\ (fp.status = "gold" /\ StatusBefore(id) # "gold")
            => GoldConditions(id, withinSevenDays)
       /\ (StatusBefore(id) = "active" /\ GoldConditions(id, withinSevenDays))
            => fp.status = "gold" /\ id \in patternMemory'.gold_patterns

\* C19 as stated: the last trade is at most 7 days (14 half days) old.
C19_GoldPromotionAsStated ==
    [][StatusCheckStep =>
         \A id \in DOMAIN patternMemory'.fingerprints :
            PromotionRule(id,
               patternMemory.now
                  - patternMemory'.fingerprints[id].last_trade_timestamp
                  <= RecencyDays * HalfDaysPerDay)]_vars

\* C19: a call promotes a fingerprint to GOLD only if, at the status check,
\* samples >= 30, wr_lo95 >= 82, the whole days elapsed since the last trade
\* are at most 7 (so less than 8 days), ew_expectancy >= 0.5 and the
\* fingerprint is not in cooldown; and an ACTIVE fingerprint satisfying all
\* of these is promoted.
C19_GoldPromotion ==
    [][StatusCheckStep =>
         \A id \in DOMAIN patternMemory'.fingerprints :
            PromotionRule(id,
               (patternMemory.now
                  - patternMemory'.fingerprints[id].last_trade_timestamp)
                  \div HalfDaysPerDay <= 7)]_vars

\* C19 witness: an update brought an imported ACTIVE fingerprint to 30
\* samples and promoted it
C19_Witness ==
    /\ patternMemory.op = "update_pattern_stats"
    /\ \E id \in DOMAIN patternMemory.fingerprints :
         /\ patternMemory.fingerprints[id].status = "gold"
         /\ patternMemory.fingerprints[id].total_samples = 30
         /\ patternMemory.fingerprints[id].wr_lo95 >= 82
         /\ id \in patternMemory.gold_patterns

\* C20: after an update made outside cooldown, a fingerprint with
\* samples >= 20, ew_win_rate < 60 and ew_expectancy < 0 is FROZEN with a
\* cooldown ending 3 days later; and an update freezes a fingerprint (sets
\* its cooldown) only under these conditions.
C20_Freeze ==
    [][UpdateStep =>
         \A id \in DOMAIN patternMemory'.fingerprints :
            LET fp == patternMemory'.fingerprints[id]
                updated == \/ ~Known(patternMemory, id)
                           \/ fp.total_samples =
                                 patternMemory.fingerprints[id].total_samples + 1
                due == /\ updated
                       /\ ~InCooldownBefore(id)
                       /\ fp.total_samples >= 20
                       /\ fp.ew_win_rate < 60
                       /\ fp.ew_expectancy < 0
                cooldownBefore ==
                    IF Known(patternMemory, id)
                    THEN patternMemory.fingerprints[id].cooldown_until
                    ELSE NoTime
            IN /\ due => /\ fp.status = "frozen"
                         /\ fp.cooldown_until = patternMemory.now + 6
                         /\ id \in patternMemory'.frozen_patterns
               /\ (fp.status = "frozen"
                     /\ (StatusBefore(id) # "frozen"
                           \/ fp.cooldown_until # cooldownBefore))
                  => due]_vars

\* C20 witness: the 20th sample, a loss, froze a fingerprint that was ACTIVE
C20_Witness ==
    /\ patternMemory.op = "update_pattern_stats"
    /\ \E id \in DOMAIN patternMemory.fingerprints :
         /\ patternMemory.fingerprints[id].status = "frozen"
         /\ patternMemory.fingerprints[id].total_samples = 20
         /\ patternMemory.fingerprints[id].cooldown_until = patternMemory.now + 6
         /\ id \in patternMemory.frozen_patterns
         /\ id \notin patternMemory.active_patterns

\* ---- properties of the feedback loop (SpecFb) --------------------------------

FbRecordStep ==
    /\ feedbackLoop' # feedbackLoop
    /\ feedbackLoop'.op = "record_trade_completion"
    /\ Len(feedbackLoop'.trade_records) = Len(feedbackLoop.trade_records) + 1

\* samples of the template of a trade record, 0 when there is none
TemplateSamplesOf(hn, rec) ==
    LET id == GenerateTemplateId(rec.setup_type, rec.bins)
    IN IF id \in DOMAIN hn.templates THEN hn.templates[id].samples ELSE 0

\* total_samples of a fingerprint of the memory, 0 when it has none
SamplesOf(pm, id) ==
    IF id \in DOMAIN pm.fingerprints THEN pm.fingerprints[id].total_samples ELSE 0

\* C14: every trade recorded through record_trade_completion with the
\* learning components set adds one entry to the calibrator's trade history
C14_CalibratorFanOut ==
    [][(FbRecordStep /\ feedbackLoop.components_set)
         => Len(calibrator'.trade_history)
              = Min(TradeHistoryMaxLen, Len(calibrator.trade_history) + 1)]_vars

\* C15: in record_trade_completion with the components set, the calibrator
\* and the pattern memory are called, and the hard negatives on a loss,
\* whichever of them raises; the record is stored and returned and the
\* learning signal appended; what a component did before a later one raised
\* stays: the calibrator's daily reset, the loss absorbed by the hard
\* negatives, the sample counted by the pattern memory
C15_BestEffort ==
    [][FbRecordStep =>
         LET rec == feedbackLoop'.returned
         IN /\ feedbackLoop'.trade_records
                 = Append(feedbackLoop.trade_records, rec)
            /\ Len(feedbackLoop'.learning_signals)
                 = Len(feedbackLoop.learning_signals) + 1
            /\ feedbackLoop.components_set =>
                 /\ feedbackLoop'.attempted
                      = {"calibrator", "pattern_memory"}
                          \cup (IF rec.result = "loss"
                                THEN {"hard_negatives"} ELSE {})
                 /\ feedbackLoop'.raised \subseteq feedbackLoop'.attempted
                 /\ calibrator'.last_reset_date = today
                 /\ ("hard_negatives" \notin feedbackLoop'.raised
                       /\ rec.result = "loss"
                       /\ rec.gpt_confidence >= HighConfidence)
                      => TemplateSamplesOf(hardNegatives', rec)
                           = TemplateSamplesOf(hardNegatives, rec) + 1
                 /\ "hard_negatives" \in feedbackLoop'.raised
                      => hardNegatives' = hardNegatives
                 /\ "pattern_memory" \notin feedbackLoop'.raised
                      => SamplesOf(patternMemory', rec.signature)
                           = SamplesOf(patternMemory, rec.signature) + 1
                 /\ "pattern_memory" \in feedbackLoop'.raised
                      => patternMemory' = patternMemory]_vars

\* a call in which the calibrator and the hard negatives raised, after the
\* hard negatives had absorbed an earlier loss, and the pattern memory still
\* counted the trade
C15_Witness ==
    /\ feedbackLoop.op = "record_trade_completion"
    /\ feedbackLoop.raised = {"calibrator", "hard_negatives"}
    /\ TemplateSamplesOf(hardNegatives, feedbackLoop.returned) = 1
    /\ Len(feedbackLoop.trade_records) = 2
    /\ feedbackLoop.returned = feedbackLoop.trade_records[2]
    /\ SamplesOf(patternMemory, feedbackLoop.returned.signature) = 2
    /\ calibrator.last_reset_date = 1

\* ---- properties of the hard negatives (SpecHn) -------------------------------

\* the call check_candidate_against_templates(c), returning
HnCheckStep(c) ==
    hardNegatives' =
        [CheckCandidate(hardNegatives, c, FALSE) EXCEPT !.calls = @ + 1]

\* a call of check_candidate_against_templates that returned
HnCheckReturned ==
    /\ hardNegatives'.calls = hardNegatives.calls + 1
    /\ hardNegatives'.returned.op = "check"
    /\ ~hardNegatives'.returned.raised

\* a call of process_loss(trade_record)
HnProcessStep(trade_record, binning_raises) ==
    /\ hardNegatives'.calls = hardNegatives.calls + 1
    /\ hardNegatives'.returned.op = "process_loss"
    /\ hardNegatives'.templates =
         ProcessLoss(hardNegatives, trade_record, binning_raises).hn.templates
    /\ hardNegatives'.returned.raised =
         ProcessLoss(hardNegatives, trade_record, binning_raises).raised

\* the templates of the candidate's setup, as the index lists them
SameSetupTemplates(hn, c) ==
    {hn.templates_by_setup[c.setup_type][i] :
        i \in 1..Len(hn.templates_by_setup[c.setup_type])}

\* C21: a check returns veto = true if and only if some template of the
\* candidate's setup is not in cooldown, matches with a score of at least
\* min_veto_score and has loss_rate_lo95 >= min_loss_lb
C21_VetoDecision ==
    [][\A c \in HnCandidates :
         HnCheckStep(c) =>
           (hardNegatives'.returned.veto
              <=> \E tid \in SameSetupTemplates(hardNegatives, c) :
                    LET t == hardNegatives.templates[tid]
                    IN /\ ~(t.cooldown_until # NoTime
                              /\ hardNegatives.now < t.cooldown_until)
                       /\ MatchScore(c, t) >= MinVetoScore
                       /\ t.loss_rate_lo95 >= MinLossLb)]_vars

\* the number of times an id is listed in a sequence
Occurrences(ids, id) == Cardinality({i \in 1..Len(ids) : ids[i] = id})

\* C22: process_loss on a loss with confidence >= 90 leaves exactly one
\* template of the trade's signature, with samples one higher and
\* severity_sum higher by |pnl| * (confidence - 80) / 10, and the other
\* templates as they were; on any other trade (or when the feature extraction
\* raises) it returns no template and leaves the store as it was
C22_TemplateCreation ==
    [][hardNegatives'.returned.op = "process_loss" =>
       \A outcome \in HnOutcomes, bins \in FeatureBins, raises \in BOOLEAN :
         LET rec == HnTradeRecord(outcome, bins)
             id == GenerateTemplateId(rec.setup_type, rec.bins)
             before == hardNegatives.templates
             after == hardNegatives'.templates
         IN HnProcessStep(rec, raises) =>
              IF rec.result = "loss" /\ rec.gpt_confidence >= HighConfidence
                 /\ ~hardNegatives'.returned.raised
              THEN /\ id \in DOMAIN after
                   /\ hardNegatives'.returned.template = id
                   /\ Occurrences(hardNegatives'.templates_by_setup[rec.setup_type],
                                  id) = 1
                   /\ after[id].samples
                        = (IF id \in DOMAIN before THEN before[id].samples ELSE 0) + 1
                   /\ after[id].severity_sum
                        = (IF id \in DOMAIN before
                           THEN before[id].severity_sum ELSE 0)
                          + Abs(rec.pnl_pts) * (rec.gpt_confidence - 80)
                   /\ DOMAIN after = DOMAIN before \cup {id}
                   /\ \A x \in DOMAIN before \ {id} : after[x] = before[x]
              ELSE /\ after = before
                   /\ hardNegatives'.templates_by_setup
                        = hardNegatives.templates_by_setup
                   /\ hardNegatives'.returned.template = NoTemplateId]_vars

\* a qualifying loss has been merged into an existing template
C22_Witness ==
    /\ hardNegatives.returned.op = "process_loss"
    /\ hardNegatives.returned.template \in DOMAIN hardNegatives.templates
    /\ LET t == hardNegatives.templates[hardNegatives.returned.template]
       IN t.samples = 2 /\ t.severity_sum = 300

SimFill == simulator.trade_state.entry_price
SimEntrySlip ==
    IF simulator.direction = "long" THEN SimFill - simulator.entry_price
                                    ELSE simulator.entry_price - SimFill
\* +1 for a long trade, -1 for a short one
SimSign == IF simulator.direction = "long" THEN 1 ELSE -1
\* a step of the loop of simulate_trade that evaluates the bar i against
\* the brackets
SimBarEvaluated ==
    /\ simulator.pc = "loop"
    /\ simulator.i <= Len(simulator.bar_data.bars)
    /\ simulator.bar_data.columns = OhlcColumns
    /\ Timestamp(simulator.bar_data, simulator.i) - EntryTime
          < simulator.config.timeout_minutes
    /\ simulator' # simulator

\* C25 -- Bracket ordering: in every simulated trade with positive tp_points
\* and sl_points the fill is the requested price moved against the trader by
\* the entry slippage (the base slippage or one and a half times it), the
\* bracket levels are tp_points and sl_points away from the fill, and
\* initial_sl < fill < tp for LONG, tp < fill < initial_sl for SHORT.
C25_BracketOrdering ==
    (/\ simulator.pc \in {"loop", "returned"}
     /\ simulator.config.tp > 0
     /\ simulator.config.sl > 0)
    => LET b == simulator.brackets
           base == (simulator.config.tick_size * 5) \div 10
       IN  /\ SimEntrySlip > 0
           /\ SimEntrySlip \in {base, (3 * base) \div 2}
           /\ simulator.trade_state.current_tp = b.tp
           /\ b.tp = SimFill + SimSign * simulator.config.tp
           /\ b.initial_sl = SimFill - SimSign * simulator.config.sl
           /\ IF simulator.direction = "long"
              THEN b.initial_sl < SimFill /\ SimFill < b.tp
              ELSE b.tp < SimFill /\ SimFill < b.initial_sl

\* a short trade filled with the widened slippage
C25_Witness ==
    /\ simulator.pc = "returned"
    /\ simulator.direction = "short"
    /\ simulator.config = ExampleConfig
    /\ SimFill = RequestedEntry - 3750
    /\ simulator.brackets.tp = RequestedEntry - 13750

\* does the walk of the prices of the bar reach the target before any of
\* its prices reaches the stop level
RECURSIVE TargetBeforeStop(_, _, _, _, _)
TargetBeforeStop(prices, k, stop, target, direction) ==
    IF k > Len(prices) THEN FALSE
    ELSE IF (IF direction = "long" THEN prices[k] <= stop ELSE prices[k] >= stop)
    THEN FALSE
    ELSE IF (IF direction = "long" THEN prices[k] >= target
                                   ELSE prices[k] <= target)
    THEN TRUE
    ELSE TargetBeforeStop(prices, k + 1, stop, target, direction)

\* C26 -- Target-first exit: when the prices of an evaluated bar reach the
\* take-profit level before they reach the stop level the trade has at that
\* bar, the trade exits in that bar with TAKE_PROFIT at the tp level and
\* gross points equal to tp_points, for LONG and for SHORT.
C26_TargetFirstExit ==
    [][(/\ SimBarEvaluated
        /\ TargetBeforeStop(IntrabarPrices(simulator.bar_data.bars[simulator.i]),
                            1, simulator.trade_state.current_sl,
                            simulator.trade_state.current_tp,
                            simulator.direction))
       => /\ simulator'.pc = "returned"
          /\ simulator'.result.exit_reason = "take_profit"
          /\ simulator'.result.exit_price = simulator.trade_state.current_tp
          /\ simulator'.result.gross_pnl_points = simulator.config.tp]_vars

\* C27 -- Stop ratchet: the stop is the initial stop until breakeven, the
\* fill once moved to breakeven and never behind the fill once trailing, and
\* no step of a trade moves it against the trade: for LONG current_sl never
\* decreases, for SHORT it never increases.
C27_StopRatchet ==
    /\ [](simulator.pc \in {"loop", "returned"}
           => LET t == simulator.trade_state
              IN  /\ ~t.be_moved => t.current_sl = simulator.brackets.initial_sl
                  /\ (t.be_moved /\ ~t.trail_active) => t.current_sl = SimFill
                  /\ t.trail_active => SimSign * (t.current_sl - SimFill) >= 0)
    /\ [][simulator.pc = "loop"
           => SimSign * (simulator'.trade_state.current_sl
                          - simulator.trade_state.current_sl) >= 0]_vars

\* a long trade whose trailing stop has passed the fill and has met a bar
\* whose high asks for a lower stop
C27_Witness ==
    /\ simulator.pc = "returned"
    /\ simulator.direction = "long"
    /\ simulator.trade_state.trail_active
    /\ simulator.i = 2
    /\ Len(simulator.bar_data.bars) = 2
    /\ simulator.trade_state.current_sl > SimFill
    /\ simulator.bar_data.bars[2].High - simulator.config.trail_distance
          < simulator.trade_state.current_sl

\* C28 -- Timeout and forced close: a call on a non-empty frame of OHLC bars
\* raises nothing and returns exactly one TradeResult with one exit reason;
\* the loop reaches a bar only when no earlier bar is at or beyond the timeout,
\* closes the trade at the close of a bar at or beyond the timeout with
\* TIMEOUT and without evaluating the bar, goes on to the next bar or
\* returns otherwise, and after the last bar closes the trade at its close
\* with MANUAL.
C28_TimeoutAndForcedClose ==
    /\ [](LET d == simulator.bar_data
              well == d.bars # <<>> /\ d.columns = OhlcColumns
          IN  /\ well => simulator.pc # "raised"
              /\ simulator.pc = "returned"
                    => /\ simulator.created = 1
                       /\ simulator.result.exit_reason \in ExitReasons
              /\ simulator.pc \in {"loop", "raised"} => simulator.created = 0
              /\ simulator.pc = "loop"
                    => /\ simulator.i <= Len(d.bars) + 1
                       /\ \A j \in 1..(simulator.i - 1) :
                            Timestamp(d, j) - EntryTime
                              < simulator.config.timeout_minutes)
    /\ [][(/\ simulator.pc = "loop"
            /\ simulator.bar_data.bars # <<>>
            /\ simulator.bar_data.columns = OhlcColumns)
           => LET d == simulator.bar_data
                  n == Len(d.bars)
                  i == simulator.i
              IN  IF i > n
                  THEN /\ simulator'.pc = "returned"
                       /\ simulator'.result.exit_reason = "manual"
                       /\ simulator'.exit_price = d.bars[n].Close
                       /\ simulator'.result.exit_price = d.bars[n].Close
                       /\ simulator'.result.exit_time = Timestamp(d, n)
                  ELSE IF Timestamp(d, i) - EntryTime
                            >= simulator.config.timeout_minutes
                  THEN /\ simulator'.pc = "returned"
                       /\ simulator'.result.exit_reason = "timeout"
                       /\ simulator'.exit_price = d.bars[i].Close
                       /\ simulator'.result.exit_time = Timestamp(d, i)
                       /\ simulator'.trade_state = simulator.trade_state
                  ELSE \/ /\ simulator'.pc = "returned"
                          /\ simulator'.result.exit_reason
                                \notin {"timeout", "manual"}
                       \/ /\ simulator'.pc = "loop"
                          /\ simulator'.i = i + 1]_vars

\* a trade that went through its first bar, which reached the breakeven
\* level, and was closed by the timeout at its second bar, which reached
\* the stop
C28_Witness ==
    /\ simulator.pc = "returned"
    /\ simulator.result.exit_reason = "timeout"
    /\ simulator.i = 2
    /\ simulator.direction = "long"
    /\ simulator.trade_state.be_moved
    /\ simulator.bar_data.bars[2] = SellOffBar

\* C29 -- Cost model: every TradeResult carries the commission; its gross
\* points are the move from the fill to the exit level less the exit
\* slippage on every exit but TAKE_PROFIT; net points are gross points less
\* the commission in points, net dollars gross points times the contract
\* size less the commission.
C29_CostModel ==
    simulator.pc = "returned"
    => LET r == simulator.result
           c == simulator.config
           base == (c.tick_size * 5) \div 10
           exit_slippage == IF r.exit_reason = "take_profit" THEN 0 ELSE base
       IN  /\ r.commission_paid = CommissionPerTrade
           /\ r.gross_pnl_points
                = SimSign * (simulator.exit_price - r.entry_price) - exit_slippage
           /\ r.net_pnl_points
                = r.gross_pnl_points - CommissionPerTrade \div c.contract_size
           /\ r.pnl_dollars
                = r.gross_pnl_points * c.contract_size - CommissionPerTrade

\* a frame simulate_trade is to refuse: empty, lacking a column, or with a
\* bar whose prices are not between its low and its high
Malformed(bar_data) ==
    \/ bar_data.bars = <<>>
    \/ bar_data.columns # OhlcColumns
    \/ \E k \in 1..Len(bar_data.bars) :
         LET b == bar_data.bars[k]
         IN  \/ b.High < b.Low
             \/ b.Open < b.Low \/ b.Open > b.High
             \/ b.Close < b.Low \/ b.Close > b.High

\* C30 -- Simulation failure: a call on a malformed frame makes no
\* TradeResult and ends in an error, after which the caller goes on to its
\* next candidate.
C30_SimulationFailure ==
    /\ []((simulator.pc # "idle" /\ Malformed(simulator.bar_data))
           => /\ simulator.pc # "returned"
              /\ simulator.created = 0)
    /\ [][simulator.pc = "raised"
           => /\ simulator'.pc = "idle"
              /\ simulator'.loop = "running"
              /\ simulator'.idx = simulator.idx + 1]_vars

\* ---- the Wilson interval ------------------------------------------------

\* C31 -- Wilson bounds: for 0 <= wins <= total with total > 0 the interval
\* satisfies 0 <= lower <= wins/total <= upper <= 1, and for total <= 0 it is
\* (0, 0), in PatternMemory and in HardNegatives.
C31_WilsonBounds ==
    wilson.module # "none"
    => IF wilson.total > 0
       THEN /\ 0 <= wilson.lower
            /\ wilson.lower * wilson.total <= wilson.wins * FixedOne
            /\ wilson.wins * FixedOne <= wilson.upper * wilson.total
            /\ wilson.upper <= FixedOne
       ELSE wilson.lower = 0 /\ wilson.upper = 0

\* ---- properties of the pattern memory's store (SpecPmStore) ------------------

\* the step is update_pattern_stats on a trade of the store with the
\* fingerprint id and the result
UpdateTradeStep(id, result) ==
    /\ patternMemory.importing.pc = "idle"
    /\ patternMemory'.op = "update_pattern_stats"
    /\ patternMemory'.calls = patternMemory.calls + 1
    /\ Known(patternMemory', id)
    /\ patternMemory' =
         [UpdatePatternStats(patternMemory,
              PmTradeRecord(id, result, patternMemory.now)).pm
          EXCEPT !.calls = @ + 1, !.op = "update_pattern_stats"]

\* how often the name is among the first three confluence factors
TopCount(trade, name) ==
    Cardinality({i \in 1..Min(3, Len(trade.confluence_factors)) :
                    trade.confluence_factors[i] = name})

\* the two trades have the same setup type, session, direction, bins, EMA
\* alignment, top three confluences and regime
SameSignature(t1, t2) ==
    /\ t1.setup_type = t2.setup_type
    /\ t1.session = t2.session
    /\ t1.direction = t2.direction
    /\ BinAtr(t1.atr_5m) = BinAtr(t2.atr_5m)
    /\ BinVolumeMultiple(t1.volume_multiple) = BinVolumeMultiple(t2.volume_multiple)
    /\ BinVwapDistance(t1.vwap_distance) = BinVwapDistance(t2.vwap_distance)
    /\ t1.ema_alignment = t2.ema_alignment
    /\ \A name \in {"ema", "vol", "vwap"} : TopCount(t1, name) = TopCount(t2, name)
    /\ t1.market_regime = t2.market_regime

\* C32: two trades with the same signature have the same fingerprint id, and
\* an update with a trade whose signature is that of a trade already held
\* as a fingerprint creates no fingerprint and adds one to the
\* total_samples of that fingerprint.
C32_FingerprintIdentity ==
    [][(/\ patternMemory'.op = "update_pattern_stats"
        /\ patternMemory'.calls = patternMemory.calls + 1) =>
        \A trade_id \in StoreIds :
          (\E result \in PmResults : UpdateTradeStep(trade_id, result)) =>
            \A trade \in Trades :
              GenerateFingerprintId(trade) = trade_id =>
                \A earlier \in Trades :
                   SameSignature(earlier, trade) =>
                     LET id == GenerateFingerprintId(earlier)
                     IN /\ id = trade_id
                        /\ Known(patternMemory, id) =>
                             /\ DOMAIN patternMemory'.fingerprints
                                  = DOMAIN patternMemory.fingerprints
                             /\ patternMemory'.fingerprints[id].total_samples
                                  = patternMemory.fingerprints[id].total_samples + 1]_vars

\* two updates have been merged into one fingerprint, the only one stored
C32_Witness ==
    /\ patternMemory.op = "update_pattern_stats"
    /\ \E id \in DOMAIN patternMemory.fingerprints :
          /\ DOMAIN patternMemory.fingerprints = {id}
          /\ patternMemory.fingerprints[id].total_samples = 2

\* the step is one iteration of import_patterns
ImportEntryStep ==
    /\ patternMemory.importing.pc = "loop"
    /\ patternMemory' # patternMemory

StoreSize(pm) == Cardinality(DOMAIN pm.fingerprints)

StoreUnchanged ==
    /\ patternMemory'.fingerprints = patternMemory.fingerprints
    /\ patternMemory'.active_patterns = patternMemory.active_patterns
    /\ patternMemory'.gold_patterns = patternMemory.gold_patterns
    /\ patternMemory'.frozen_patterns = patternMemory.frozen_patterns

\* the import goes on with the entries after the first, or returns after
\* the last one
ImportContinues ==
    LET rest == Tail(patternMemory.importing.payload)
    IN IF rest = <<>> THEN patternMemory'.importing.pc = "idle"
       ELSE /\ patternMemory'.importing.pc = "loop"
            /\ patternMemory'.importing.payload = rest

\* the entry is in the store
Imported(entry) ==
    /\ Known(patternMemory', entry.fid)
    /\ patternMemory'.fingerprints[entry.fid].status = entry.status
    /\ patternMemory'.fingerprints[entry.fid].last_trade_timestamp = entry.last_trade

\* the guardrails of an iteration, for a given reading of 'stale'
ImportGuardrails(Stale(_)) ==
    ImportEntryStep =>
      LET entry == Head(patternMemory.importing.payload)
          cap == patternMemory.importing.max_patterns
          rejected == entry.last_trade = NoTime \/ Stale(entry)
      IN /\ StoreSize(patternMemory') <= Max(StoreSize(patternMemory), cap)
         /\ rejected => StoreUnchanged
         /\ rejected /\ StoreSize(patternMemory) < cap => ImportContinues
         /\ ~rejected /\ StoreSize(patternMemory) < cap =>
               Imported(entry) /\ ImportContinues

\* the last trade of the entry lies more than 180 days back
OlderThanHorizon(entry) ==
    patternMemory.now - entry.last_trade > StaleDays * HalfDaysPerDay

\* the whole days since the last trade of the entry are more than 180
WholeDaysOverHorizon(entry) ==
    Days(patternMemory.now - entry.last_trade) > StaleDays

StatusSetsOf(pm, id) ==
    {name \in {"active", "gold", "frozen"} :
        id \in (CASE name = "active" -> pm.active_patterns
                  [] name = "gold" -> pm.gold_patterns
                  [] OTHER -> pm.frozen_patterns)}

\* C39: between calls, every stored fingerprint id is in exactly one of the
\* sets active_patterns, gold_patterns and frozen_patterns, the one of its
\* status, and these sets hold stored ids only.
C39_StatusIndexConsistency ==
    patternMemory.importing.pc = "idle" =>
      /\ \A id \in DOMAIN patternMemory.fingerprints :
            StatusSetsOf(patternMemory, id) = {patternMemory.fingerprints[id].status}
      /\ (patternMemory.active_patterns \cup patternMemory.gold_patterns
            \cup patternMemory.frozen_patterns) \subseteq DOMAIN patternMemory.fingerprints

\* C35: the ew_win_rate of every stored fingerprint is a percentage,
\* 0 <= ew_win_rate <= 100.
C35_EwmaWinRate ==
    \A id \in DOMAIN patternMemory.fingerprints :
       /\ 0 <= patternMemory.fingerprints[id].ew_win_rate
       /\ patternMemory.fingerprints[id].ew_win_rate <= 100

\* ---- properties of a streak of updates (SpecPmStreak) ------------------------

\* C38: updates alone take a fingerprint out of ACTIVE: after MaxStreak
\* winning trades made at the time of the update the fingerprint of their
\* signature is GOLD, and after MaxStreak losing trades it is FROZEN.
C38_StatusReachability ==
    \A id \in DOMAIN patternMemory.fingerprints :
       LET fp == patternMemory.fingerprints[id]
       IN fp.total_samples = MaxStreak =>
            /\ fp.wins = fp.total_samples => fp.status = "gold"
            /\ fp.losses = fp.total_samples => fp.status = "frozen"

\* ---- properties of the hard negatives' store (SpecHnStore) -------------------

\* the step is import_templates(payload, max_templates)
HnImportStep(payload, max_templates) ==
    /\ hardNegatives'.returned.op = "import_templates"
    /\ hardNegatives'.calls = hardNegatives.calls + 1
    /\ hardNegatives' =
         [ImportLoop(hardNegatives, payload, max_templates, 0)
          EXCEPT !.calls = @ + 1]

\* the template of the entry was last matched, or if never matched made,
\* more than StaleDays days ago
StaleEntry(entry, now) ==
    now - (IF entry.last_match # NoTime THEN entry.last_match
           ELSE entry.creation_timestamp) > StaleDays

\* the step leaves the template id as it was, stored or not
TemplateKept(tid) ==
    IF tid \in DOMAIN hardNegatives.templates
    THEN /\ tid \in DOMAIN hardNegatives'.templates
         /\ hardNegatives'.templates[tid] = hardNegatives.templates[tid]
    ELSE tid \notin DOMAIN hardNegatives'.templates

\* C34: import_templates never grows the template store beyond the cap and
\* does not import an entry that is stale beyond the cutoff of 180 days.
C34_TemplateImportGuardrails ==
    [][hardNegatives'.returned.op = "import_templates" =>
        \A payload \in StorePayloads, max_templates \in MaxTemplatesArgs :
          HnImportStep(payload, max_templates) =>
            /\ Cardinality(DOMAIN hardNegatives'.templates)
                 <= Max(Cardinality(DOMAIN hardNegatives.templates), max_templates)
            /\ \A i \in 1..Len(payload) :
                  StaleEntry(payload[i], hardNegatives.now) =>
                     TemplateKept(payload[i].tid)]_vars

\* how often the id is listed under the setup type
Listings(hn, setup_type, tid) ==
    Cardinality({i \in 1..Len(hn.templates_by_setup[setup_type]) :
                    hn.templates_by_setup[setup_type][i] = tid})

\* C40: every template id listed in templates_by_setup is a stored template,
\* is listed once, and is listed under the setup type of its template.
C40_TemplateIndexConsistency ==
    \A setup_type \in Setups :
       \A i \in 1..Len(hardNegatives.templates_by_setup[setup_type]) :
          LET tid == hardNegatives.templates_by_setup[setup_type][i]
          IN /\ tid \in DOMAIN hardNegatives.templates
             /\ Listings(hardNegatives, setup_type, tid) = 1
             /\ hardNegatives.templates[tid].setup_type = setup_type

\* C36 -- Bracket lifecycle and exit classification: trailing is active only
\* once the stop has been moved to breakeven; an exit at the stop is
\* TRAILING_STOP only if trailing is active, BREAKEVEN only if the stop was
\* moved to breakeven and trailing is not active, STOP_LOSS only if the stop
\* is still the initial stop; and a bar whose walk meets the target before
\* the stop in force ends the trade with TAKE_PROFIT at the target.
C36_ExitClassification ==
    /\ [](simulator.pc \in {"loop", "returned"}
           => (simulator.trade_state.trail_active => simulator.trade_state.be_moved))
    /\ [](simulator.pc = "returned"
           => LET t == simulator.trade_state
                  r == simulator.result.exit_reason
              IN  /\ r = "trailing_stop" => t.trail_active
                  /\ r = "breakeven" => t.be_moved /\ ~t.trail_active
                  /\ r = "stop_loss" =>
                        /\ ~t.be_moved /\ ~t.trail_active
                        /\ t.current_sl = simulator.brackets.initial_sl
                  /\ r \in {"trailing_stop", "breakeven", "stop_loss"}
                        => simulator.exit_price = t.current_sl
                  /\ r = "take_profit" => simulator.exit_price = t.current_tp)
    /\ [][(/\ SimBarEvaluated
           /\ TargetBeforeStop(IntrabarPrices(simulator.bar_data.bars[simulator.i]),
                               1, simulator'.trade_state.current_sl,
                               simulator'.trade_state.current_tp,
                               simulator.direction))
          => /\ simulator'.pc = "returned"
             /\ simulator'.result.exit_reason = "take_profit"
             /\ simulator'.exit_price = simulator.trade_state.current_tp]_vars

\* a trade stopped at the fill after the move to breakeven, trailing not
\* being active
C36_Witness ==
    /\ simulator.pc = "returned"
    /\ simulator.result.exit_reason = "breakeven"
    /\ simulator.trade_state.be_moved
    /\ ~simulator.trade_state.trail_active
    /\ simulator.exit_price = simulator.trade_state.entry_price

\* ---- request visibility (Spec) -------------------------------------------------

\* C37: a get_request_status call for the id of a submitted request, which
\* the history still holds or has not yet received and which no
\* force_process_queue is clearing, returns the request and not None.
C37_RequestVisibility ==
    (/\ clientPc = "grs_return"
     /\ clientArg \in accepted
     /\ adminReq # clientArg)
    => found_request = clientArg

====
